---------------------------- MODULE Spec2Model ----------------------------
(***************************************************************************)
(* A model of the tiled-intermediate-representation compiler:              *)
(*   IR.hpp          the nine IR node kinds, held in an owning heap        *)
(*   IRBuilder.cpp   buildUntiledIR and its string helpers                 *)
(*   TilingPass.cpp  deepCopy and tilingPass                               *)
(*   CodeGenerator.cpp  generateExpression and codeGeneration              *)
(*                                                                         *)
(* A std::string is a sequence of one-character strings.  A size_t is an   *)
(* integer read modulo 2^64 in two's complement: std::string::npos is -1,  *)
(* and a negative number stands for the huge unsigned value 2^64 - k.      *)
(***************************************************************************)
EXTENDS Integers, Sequences, FiniteSets, TLC

(***************************************************************************)
(* Bounds of the model.                                                    *)
(***************************************************************************)
MaxLoops == 3
MaxN == 3
MaxT == 3
MaxStep == 2
MaxEdits == 1
MaxRank == 3
MaxOperands == 3

(***************************************************************************)
(* std::string                                                             *)
(***************************************************************************)
npos == 0 - 1

\* unsigned comparison of two size_t values
ULess(a, b) ==
    IF a >= 0 /\ b >= 0 THEN a < b
    ELSE IF a >= 0 THEN TRUE
    ELSE IF b >= 0 THEN FALSE
    ELSE a < b

UMin(a, b) == IF ULess(a, b) THEN a ELSE b

\* ::isspace in the "C" locale
isspace(c) == c \in {" ", "\t", "\n", "\r", "\f"}

\* ::isdigit
isdigit(c) == c \in {"0", "1", "2", "3", "4", "5", "6", "7", "8", "9"}

\* s.find(pat): the first 0-based position where pat occurs, or npos
find(s, pat) ==
    LET hits == { p \in 0..(Len(s) - Len(pat)) :
                    \A k \in 1..Len(pat) : s[p + k] = pat[k] }
    IN  IF hits = {} THEN npos
        ELSE CHOOSE p \in hits : \A q \in hits : p <= q

\* the first 0-based position of character c, or npos
rfindFirst(s, c) ==
    LET hits == { p \in 0..(Len(s) - 1) : s[p + 1] = c }
    IN  IF hits = {} THEN npos
        ELSE CHOOSE p \in hits : \A q \in hits : p <= q

\* s.rfind(c): the last 0-based position of character c, or npos
rfind(s, c) ==
    LET hits == { p \in 0..(Len(s) - 1) : s[p + 1] = c }
    IN  IF hits = {} THEN npos
        ELSE CHOOSE p \in hits : \A q \in hits : p >= q

\* s.substr(pos, n) throws std::out_of_range when pos > size()
substrThrows(s, pos) == ULess(Len(s), pos)

\* s.substr(pos, n) when it does not throw: min(n, size() - pos) characters
substr(s, pos, n) ==
    LET rlen == UMin(n, Len(s) - pos)
    IN  SubSeq(s, pos + 1, pos + rlen)

\* std::remove_if(::isspace) followed by erase
NotSpace(c) == ~isspace(c)

eraseSpaces(s) == SelectSeq(s, NotSpace)


(***************************************************************************)
(* IRBuilder.cpp: helpers                                                  *)
(***************************************************************************)

\* the elements of a finite set of integers in increasing order
Sorted(S) ==
    [k \in 1..Cardinality(S) |->
        CHOOSE p \in S : Cardinality({ q \in S : q < p }) = k - 1]

NotEmpty(token) == token # <<>>

\* split: the std::getline pieces between delimiters (and the ends of s),
\* the empty ones dropped
split(s, delimiter) ==
    LET cuts == Sorted({0, Len(s) + 1}
                       \cup { p \in 1..Len(s) : s[p] = delimiter })
        pieces == [k \in 1..(Len(cuts) - 1) |->
                      SubSeq(s, cuts[k] + 1, cuts[k + 1] - 1)]
    IN  SelectSeq(pieces, NotEmpty)

\* clean_expr: drop every whitespace character, then drop the first and the
\* last character when they are '(' and ')'.  front()/back() of an empty
\* string are undefined; the empty string is returned for it, as a build
\* that reads the terminator does.
clean_expr(str) ==
    LET s == eraseSpaces(str)
    IN  IF s # <<>> /\ s[1] = "(" /\ s[Len(s)] = ")"
        THEN substr(s, 1, Len(s) - 2)
        ELSE s

(***************************************************************************)
(* IR trees as values: what a constructor call is given and what a         *)
(* traversal reads.  A thrown exception is an Error value whose field      *)
(* `what` is the set of exception types the call can end with.             *)
(***************************************************************************)
Null == [type |-> "Null"]

Error(kinds) == [type |-> "Error", what |-> kinds]

IsError(t) == t.type = "Error"

Const(v, alt, d) == [type |-> "Const", value_ |-> [alt |-> alt, v |-> v], dtype_ |-> d]

Variable(n) == [type |-> "Variable", name_ |-> n]

Min(one, two) == [type |-> "Min", operand_one_ |-> one, operand_two_ |-> two]

Add(one, two) == [type |-> "Add", operand_one_ |-> one, operand_two_ |-> two]

Mul(one, two) == [type |-> "Mul", operand_one_ |-> one, operand_two_ |-> two]

Load(t, indices) == [type |-> "Load", tensor_ |-> t, indices_ |-> indices]

Store(t, indices) == [type |-> "Store", tensor_ |-> t, indices_ |-> indices]

Assign(target, value) == [type |-> "Assign", target_ |-> target, value_ |-> value]

Loop(i, lb, ub, step, body) ==
    [type |-> "Loop", index_ |-> i, lower_bound_ |-> lb, upper_bound_ |-> ub,
     step_ |-> step, body_ |-> body]

(***************************************************************************)
(* class Tensor (IR.hpp lines 41-68).  A size_t is 64 bits wide; it is     *)
(* held as 8 limbs of 8 bits, least significant first, and multiplied      *)
(* limb by limb, so that a product wraps modulo 2^64 as unsigned           *)
(* arithmetic does.                                                        *)
(***************************************************************************)
RECURSIVE limbs(_, _)
limbs(n, w) == IF w = 0 THEN <<>> ELSE <<n % 256>> \o limbs(n \div 256, w - 1)

\* the size_t a small literal is converted to
size_t(n) == limbs(n, 8)

limb(a, i) == IF i \in DOMAIN a THEN a[i] ELSE 0

RECURSIVE column(_, _, _, _)
column(a, b, k, i) ==
    IF i > k THEN 0
    ELSE limb(a, i) * limb(b, k + 1 - i) + column(a, b, k, i + 1)

\* the limbs k..w of a * b, given the carry into limb k
RECURSIVE mulFrom(_, _, _, _, _)
mulFrom(a, b, k, carry, w) ==
    IF k > w THEN <<>>
    ELSE <<(column(a, b, k, 1) + carry) % 256>>
         \o mulFrom(a, b, k + 1, (column(a, b, k, 1) + carry) \div 256, w)

\* a * b kept to w limbs
mulLimbs(a, b, w) == mulFrom(a, b, 1, 0, w)

\* a *= b on size_t: the product modulo 2^64
mulSize(a, b) == mulLimbs(a, b, 8)

\* lines 54-60: strides_[i] = current_stride; current_stride *= extents_[i],
\* for i from dims_ - 1 down to 0; the strides of dimensions 1..i
RECURSIVE stridesUpTo(_, _, _)
stridesUpTo(extents, i, current_stride) ==
    IF i = 0 THEN <<>>
    ELSE stridesUpTo(extents, i - 1, mulSize(current_stride, extents[i]))
         \o <<current_stride>>

\* Tensor::Tensor (lines 43-61)
Tensor(n, d, dims, extents) ==
    IF dims # Len(extents)
    THEN Error({"invalid_argument"})
    ELSE [type |-> "Tensor", name |-> n, dtype_ |-> d, dims_ |-> dims,
          extents_ |-> extents,
          strides_ |-> stridesUpTo(extents, dims, size_t(1))]

\* IRBuilder.cpp lines 10-12
TensorA == Tensor(<<"A">>, "Float32", 2, <<size_t(1024), size_t(1024)>>)

TensorB == Tensor(<<"B">>, "Float32", 2, <<size_t(1024), size_t(1024)>>)

TensorC == Tensor(<<"C">>, "Float32", 2, <<size_t(1024), size_t(1024)>>)

\* TensorMap.at(name) for a key of the map (IRBuilder.cpp lines 15-16)
TensorAt(n) ==
    CASE n = <<"A">> -> TensorA
      [] n = <<"B">> -> TensorB
      [] n = <<"C">> -> TensorC

\* the keys of TensorMap
TensorMap == { <<"A">>, <<"B">>, <<"C">> }

(***************************************************************************)
(* IRBuilder.cpp: the parser                                               *)
(***************************************************************************)

\* parseTensorAccess: the pair (tensor name, index Variables), or an Error
parseTensorAccess(access_str) ==
    LET open_bracket == find(access_str, <<"[">>)
        close_bracket == find(access_str, <<"]">>)
    IN  IF open_bracket = npos \/ close_bracket = npos
        THEN Error({"runtime_error"})
        ELSE LET tensor_name == substr(access_str, 0, open_bracket)
                 indices_str == substr(access_str, open_bracket + 1,
                                       close_bracket - open_bracket - 1)
                 index_vars == split(indices_str, ",")
             IN  IF tensor_name \notin TensorMap
                 THEN Error({"out_of_range"})
                 ELSE [type |-> "Access", tensor_ |-> tensor_name,
                       indices_ |-> [k \in 1..Len(index_vars) |->
                                        Variable(index_vars[k])]]

parseLoad(access_str) ==
    LET a == parseTensorAccess(access_str)
    IN  IF IsError(a) THEN a ELSE Load(a.tensor_, a.indices_)

parseStore(access_str) ==
    LET a == parseTensorAccess(access_str)
    IN  IF IsError(a) THEN a ELSE Store(a.tensor_, a.indices_)

\* the operands of a binary node are evaluated in an unspecified order, so
\* when both throw either exception can be the one that propagates
Binary(type, l, r) ==
    IF IsError(l) /\ IsError(r) THEN Error(l.what \cup r.what)
    ELSE IF IsError(l) THEN l
    ELSE IF IsError(r) THEN r
    ELSE [type |-> type, operand_one_ |-> l, operand_two_ |-> r]

RECURSIVE parseExpression(_)
parseExpression(expr_str) ==
    LET cleaned == clean_expr(expr_str)
        plus_pos == rfind(cleaned, "+")
        star_pos == rfind(cleaned, "*")
    IN  IF find(cleaned, <<"+">>) = npos /\ find(cleaned, <<"*">>) = npos
        THEN parseLoad(cleaned)
        ELSE IF plus_pos # npos
        THEN Binary("Add",
                    parseExpression(substr(cleaned, 0, plus_pos)),
                    parseExpression(substr(cleaned, plus_pos + 1, npos)))
        ELSE IF star_pos # npos
        THEN Binary("Mul",
                    parseExpression(substr(cleaned, 0, star_pos)),
                    parseExpression(substr(cleaned, star_pos + 1, npos)))
        ELSE parseExpression(cleaned)

\* the value of a digit character
digit(c) ==
    CASE c = "0" -> 0 [] c = "1" -> 1 [] c = "2" -> 2 [] c = "3" -> 3
      [] c = "4" -> 4 [] c = "5" -> 5 [] c = "6" -> 6 [] c = "7" -> 7
      [] c = "8" -> 8 [] c = "9" -> 9

RECURSIVE decimal(_)
decimal(s) ==
    IF s = <<>> THEN 0
    ELSE 10 * decimal(SubSeq(s, 1, Len(s) - 1)) + digit(s[Len(s)])

RECURSIVE dropZeros(_)
dropZeros(s) ==
    IF s # <<>> /\ Head(s) = "0" THEN dropZeros(Tail(s)) ELSE s

\* the digits of INT_MAX
IntMaxDigits == <<2, 1, 4, 7, 4, 8, 3, 6, 4, 7>>

\* std::stoi on a string of digits throws std::out_of_range above INT_MAX
\* (and std::invalid_argument on the empty string)
stoiOverflows(s) ==
    LET z == dropZeros(s)
    IN  \/ Len(z) > Len(IntMaxDigits)
        \/ /\ Len(z) = Len(IntMaxDigits)
           /\ \E k \in 1..Len(z) :
                 /\ digit(z[k]) > IntMaxDigits[k]
                 /\ \A m \in 1..(k - 1) : digit(z[m]) = IntMaxDigits[m]

\* parse_bound: all digits -> Const(int32), anything else -> Variable
parse_bound(s) ==
    IF \A k \in 1..Len(s) : isdigit(s[k])
    THEN IF s = <<>> THEN Error({"invalid_argument"})
         ELSE IF stoiOverflows(s) THEN Error({"out_of_range"})
         ELSE Const(decimal(dropZeros(s)), "int", "Int32")
    ELSE Variable(s)

\* one pass of the loop of buildUntiledIR: wrap current_body in the loop
\* that loop_token describes.  Indexing parts or bounds past their size is
\* undefined.
wrapLoop(loop_token, current_body) ==
    LET parts == split(loop_token, "=")
        bounds == split(parts[2], ":")
    IN  IF Len(parts) < 2 THEN Error({"undefined"})
        ELSE IF Len(bounds) < 3 THEN Error({"undefined"})
        ELSE LET lb == parse_bound(bounds[1])
                 ub == parse_bound(bounds[2])
                 st == parse_bound(bounds[3])
             IN  IF IsError(lb) \/ IsError(ub) \/ IsError(st)
                 THEN Error(UNION { b.what : b \in { x \in {lb, ub, st} : IsError(x) } })
                 ELSE Loop(parts[1], lb, ub, st, <<current_body>>)

\* the loop of buildUntiledIR, from the last token down to the first
RECURSIVE nestLoops(_, _)
nestLoops(loop_tokens, current_body) ==
    IF loop_tokens = <<>> \/ IsError(current_body) THEN current_body
    ELSE nestLoops(SubSeq(loop_tokens, 1, Len(loop_tokens) - 1),
                   wrapLoop(loop_tokens[Len(loop_tokens)], current_body))

LoopsMarker == <<"L", "O", "O", "P", "S", ":">>

BodyMarker == <<"B", "O", "D", "Y", ":">>

\* buildUntiledIR: the tree built from the program text, or an Error
buildUntiledIR(input_program) ==
    LET loops_start == find(input_program, LoopsMarker)
        body_start == find(input_program, BodyMarker)
    IN  IF \/ substrThrows(input_program, loops_start + 6)
           \/ substrThrows(input_program, body_start + 5)
        THEN Error({"out_of_range"})
        ELSE
        LET loops_str == substr(input_program, loops_start + 6,
                                body_start - (loops_start + 6))
            body_str == substr(input_program, body_start + 5, npos)
            assign_pos == find(body_str, <<"=">>)
        IN  LET target_str == clean_expr(substr(body_str, 0, assign_pos))
                value_str == clean_expr(substr(body_str, assign_pos + 1, npos))
                store_target_node == parseStore(target_str)
                value_expr_root == parseExpression(value_str)
            IN  IF IsError(store_target_node) THEN store_target_node
                ELSE IF IsError(value_expr_root) THEN value_expr_root
                ELSE nestLoops(split(loops_str, ","),
                               Assign(store_target_node, value_expr_root))

(***************************************************************************)
(* IR.hpp: the heap of IRNode objects.  A node is a record with the fields *)
(* of its class; a std::unique_ptr<IRNode> is the id of the node it owns,  *)
(* 0 when it is null.  Ids are never reused, so a destroyed node stays     *)
(* recognisable.                                                           *)
(***************************************************************************)
nullptr == 0

Range(f) == { f[x] : x \in DOMAIN f }

\* the owning pointers a node holds, in declaration order
Children(n) ==
    CASE n.type = "Loop" -> <<n.lower_bound_, n.upper_bound_, n.step_>> \o n.body_
      [] n.type \in {"Min", "Add", "Mul"} -> <<n.operand_one_, n.operand_two_>>
      [] n.type \in {"Load", "Store"} -> n.indices_
      [] n.type = "Assign" -> <<n.target_, n.value_>>
      [] OTHER -> <<>>

\* the nodes reachable from pointer p by owning pointers
RECURSIVE Reach(_, _)
Reach(h, p) ==
    IF p = nullptr THEN {}
    ELSE {p} \cup UNION { Reach(h, c) : c \in Range(Children(h[p])) }

\* std::make_unique: a new node at the end of the heap
make_unique(h, n) == [heap |-> Append(h, n), id |-> Len(h) + 1]

\* the nodes that building the tree value t adds to a heap of `base` nodes,
\* children before parents, and the id of the root among them
RECURSIVE newNodes(_, _), newNodesAll(_, _)
newNodesAll(ts, base) ==
    IF ts = <<>> THEN [nodes |-> <<>>, ids |-> <<>>]
    ELSE LET first == newNodes(Head(ts), base)
             rest == newNodesAll(Tail(ts), base + Len(first.nodes))
         IN  [nodes |-> first.nodes \o rest.nodes, ids |-> <<first.id>> \o rest.ids]

newNodes(t, base) ==
    CASE t.type = "Null" -> [nodes |-> <<>>, id |-> nullptr]
      [] t.type \in {"Const", "Variable"} -> [nodes |-> <<t>>, id |-> base + 1]
      [] t.type \in {"Min", "Add", "Mul"} ->
            LET k == newNodesAll(<<t.operand_one_, t.operand_two_>>, base)
            IN  [nodes |-> Append(k.nodes, [type |-> t.type,
                                            operand_one_ |-> k.ids[1],
                                            operand_two_ |-> k.ids[2]]),
                 id |-> base + Len(k.nodes) + 1]
      [] t.type \in {"Load", "Store"} ->
            LET k == newNodesAll(t.indices_, base)
            IN  [nodes |-> Append(k.nodes, [type |-> t.type, tensor_ |-> t.tensor_,
                                            indices_ |-> k.ids]),
                 id |-> base + Len(k.nodes) + 1]
      [] t.type = "Assign" ->
            LET k == newNodesAll(<<t.target_, t.value_>>, base)
            IN  [nodes |-> Append(k.nodes, Assign(k.ids[1], k.ids[2])),
                 id |-> base + Len(k.nodes) + 1]
      [] t.type = "Loop" ->
            LET k == newNodesAll(<<t.lower_bound_, t.upper_bound_, t.step_>> \o t.body_,
                                 base)
            IN  [nodes |-> Append(k.nodes,
                                  Loop(t.index_, k.ids[1], k.ids[2], k.ids[3],
                                       SubSeq(k.ids, 4, Len(k.ids)))),
                 id |-> base + Len(k.nodes) + 1]

\* build the tree value t on the heap
construct(h, t) ==
    LET c == newNodes(t, Len(h))
    IN  [heap |-> h \o c.nodes, id |-> c.id]

\* what a traversal from pointer p reads.  Reading a destroyed node is
\* undefined: it reads as Dangling.
RECURSIVE Read(_, _, _)
Read(h, dead, p) ==
    IF p = nullptr THEN Null
    ELSE IF p \in dead THEN [type |-> "Dangling"]
    ELSE LET n == h[p]
             R(c) == Read(h, dead, c)
         IN  CASE n.type \in {"Const", "Variable"} -> n
               [] n.type \in {"Min", "Add", "Mul"} ->
                     [type |-> n.type, operand_one_ |-> R(n.operand_one_),
                      operand_two_ |-> R(n.operand_two_)]
               [] n.type \in {"Load", "Store"} ->
                     [type |-> n.type, tensor_ |-> n.tensor_,
                      indices_ |-> [k \in 1..Len(n.indices_) |-> R(n.indices_[k])]]
               [] n.type = "Assign" -> Assign(R(n.target_), R(n.value_))
               [] n.type = "Loop" ->
                     Loop(n.index_, R(n.lower_bound_), R(n.upper_bound_), R(n.step_),
                          [k \in 1..Len(n.body_) |-> R(n.body_[k])])

(***************************************************************************)
(* TilingPass.cpp: deepCopy                                                *)
(***************************************************************************)

\* a copy of a Const node that always takes the 32-bit dtype
copyConstInt32(c) == [type |-> "Const", value_ |-> c.value_, dtype_ |-> "Int32"]

\* the copy of a Const node: the same literal and dtype
copyConst(c) == [type |-> "Const", value_ |-> c.value_, dtype_ |-> c.dtype_]

\* copyNode is the switch of deepCopy (lines 34-96): the nodes that copying
\* the subtree of node nd adds to a heap of `base` nodes, in the order the
\* code makes them, and the id of the copy of nd
RECURSIVE copyNode(_, _, _), copyPtr(_, _, _), copyVector(_, _, _)
copyVector(h, original_nodes, base) ==
    IF original_nodes = <<>> THEN [nodes |-> <<>>, ids |-> <<>>]
    ELSE LET first == copyPtr(h, Head(original_nodes), base)
             rest == copyVector(h, Tail(original_nodes), base + Len(first.nodes))
         IN  [nodes |-> first.nodes \o rest.nodes, ids |-> <<first.id>> \o rest.ids]

copyNode(h, nd, base) ==
    LET n == h[nd]
    IN  CASE n.type = "Const" -> [nodes |-> <<copyConst(n)>>, id |-> base + 1]
          [] n.type = "Variable" -> [nodes |-> <<Variable(n.name_)>>, id |-> base + 1]
          [] n.type = "Min" ->
                LET k == copyVector(h, <<n.operand_one_, n.operand_two_>>, base)
                IN  [nodes |-> Append(k.nodes, Min(k.ids[1], k.ids[2])),
                     id |-> base + Len(k.nodes) + 1]
          [] n.type = "Add" ->
                LET k == copyVector(h, <<n.operand_one_, n.operand_two_>>, base)
                IN  [nodes |-> Append(k.nodes, Add(k.ids[1], k.ids[2])),
                     id |-> base + Len(k.nodes) + 1]
          [] n.type = "Mul" ->
                LET k == copyVector(h, <<n.operand_one_, n.operand_two_>>, base)
                IN  [nodes |-> Append(k.nodes, Mul(k.ids[1], k.ids[2])),
                     id |-> base + Len(k.nodes) + 1]
          [] n.type = "Load" ->
                LET k == copyVector(h, n.indices_, base)
                IN  [nodes |-> Append(k.nodes, Load(n.tensor_, k.ids)),
                     id |-> base + Len(k.nodes) + 1]
          [] n.type = "Store" ->
                LET k == copyVector(h, n.indices_, base)
                IN  [nodes |-> Append(k.nodes, Store(n.tensor_, k.ids)),
                     id |-> base + Len(k.nodes) + 1]
          [] n.type = "Assign" ->
                LET k == copyVector(h, <<n.target_, n.value_>>, base)
                IN  [nodes |-> Append(k.nodes, Assign(k.ids[1], k.ids[2])),
                     id |-> base + Len(k.nodes) + 1]
          [] n.type = "Loop" ->
                \* the bounds, then the new Loop, then its body
                LET k == copyVector(h, <<n.lower_bound_, n.upper_bound_, n.step_>>, base)
                    new_loop == base + Len(k.nodes) + 1
                    b == copyVector(h, n.body_, new_loop)
                IN  [nodes |-> Append(k.nodes,
                                      Loop(n.index_, k.ids[1], k.ids[2], k.ids[3], b.ids))
                               \o b.nodes,
                     id |-> new_loop]

\* a copy that hands back the Assign node itself instead of a copy of it
copyPtrShareAssign(h, nd, base) ==
    IF nd = nullptr THEN [nodes |-> <<>>, id |-> nullptr]
    ELSE IF h[nd].type = "Assign" THEN [nodes |-> <<>>, id |-> nd]
    ELSE copyNode(h, nd, base)

\* lines 28-30: a null pointer copies to a null pointer
copyPtr(h, nd, base) ==
    IF nd = nullptr THEN [nodes |-> <<>>, id |-> nullptr]
    ELSE copyNode(h, nd, base)

\* deepCopyVector: the heap with the copies added, and their ids
deepCopyVector(h, original_nodes) ==
    LET c == copyVector(h, original_nodes, Len(h))
    IN  [heap |-> h \o c.nodes, ids |-> c.ids]

\* deepCopy: the heap with the copy added, and its id
deepCopy(h, nd) ==
    LET c == copyPtr(h, nd, Len(h))
    IN  [heap |-> h \o c.nodes, id |-> c.id]

(***************************************************************************)
(* TilingPass.cpp: tilingPass, one operator per group of statements.       *)
(* Each takes the heap and the locals of the call and gives the heap, the  *)
(* locals and the set of nodes destroyed by the statements.                *)
(***************************************************************************)
NoLocals ==
    [og_loop_i |-> nullptr, og_loop_j |-> nullptr, cpy |-> nullptr,
     loop_i |-> nullptr, loop_j |-> nullptr,
     var_ii |-> nullptr, var_jj |-> nullptr, var_t |-> nullptr,
     add_ii_t |-> nullptr, add_jj_t |-> nullptr,
     loop_i_upper |-> nullptr, loop_j_upper |-> nullptr,
     loop_jj |-> nullptr, loop_ii |-> nullptr]

name_ii == <<"i", "i">>

name_jj == <<"j", "j">>

name_T == <<"T">>

\* the casts of lines 106-107 and the reads of lines 124-139 are defined
\* only when nd is a Loop whose first body statement is a Loop
CastsDefined(h, nd) ==
    /\ nd # nullptr
    /\ h[nd].type = "Loop"
    /\ h[nd].body_ # <<>>
    /\ h[nd].body_[1] # nullptr
    /\ h[h[nd].body_[1]].type = "Loop"

\* a tilingPass that restructures its argument in place, without the copy
tpCopyInPlace(h, nd) ==
    [heap |-> h,
     loc |-> [NoLocals EXCEPT !.og_loop_i = nd,
                              !.og_loop_j = h[nd].body_[1],
                              !.cpy = nd,
                              !.loop_i = nd,
                              !.loop_j = h[nd].body_[1]]]

\* lines 106-112: the two source loops, the deep copy and its two loops
tpCopy(h, nd) ==
    LET c == deepCopy(h, nd)
    IN  [heap |-> c.heap,
         loc |-> [NoLocals EXCEPT !.og_loop_i = nd,
                                  !.og_loop_j = h[nd].body_[1],
                                  !.cpy = c.id,
                                  !.loop_i = c.id,
                                  !.loop_j = c.heap[c.id].body_[1]]]

\* lines 114-116: the three fresh Variables
tpFresh(h, loc) ==
    [heap |-> h \o <<Variable(name_ii), Variable(name_jj), Variable(name_T)>>,
     loc |-> [loc EXCEPT !.var_ii = Len(h) + 1,
                         !.var_jj = Len(h) + 2,
                         !.var_t = Len(h) + 3]]

\* the Add node over a pair of copied operands
addOver(k) == make_unique(k.heap, Add(k.ids[1], k.ids[2]))

\* lines 118-121: Add(copy of var, copy of var_t)
tileLimit(h, var, var_t) == addOver(deepCopyVector(h, <<var, var_t>>))

tpAdds(h, loc) ==
    LET a == tileLimit(h, loc.var_ii, loc.var_t)
        b == tileLimit(a.heap, loc.var_jj, loc.var_t)
    IN  [heap |-> b.heap,
         loc |-> [loc EXCEPT !.add_ii_t = a.id, !.add_jj_t = b.id]]

\* the Min node over a tile limit and a copied upper bound
minOver(add, u) == make_unique(u.heap, Min(add, u.id))

\* a point-loop upper bound without the clamp: the tile limit itself
pointUpperUnclamped(h, add, og_upper) == [heap |-> h, id |-> add]

\* lines 123-126: Min(tile limit, copy of og_upper)
pointUpper(h, add, og_upper) == minOver(add, deepCopy(h, og_upper))

tpUppers(h, loc) ==
    LET ui == pointUpper(h, loc.add_ii_t, h[loc.og_loop_i].upper_bound_)
        uj == pointUpper(ui.heap, loc.add_jj_t, h[loc.og_loop_j].upper_bound_)
    IN  [heap |-> uj.heap,
         loc |-> [loc EXCEPT !.add_ii_t = nullptr, !.add_jj_t = nullptr,
                             !.loop_i_upper = ui.id, !.loop_j_upper = uj.id]]

\* a replacement of the upper bounds only: the point loops keep the lower
\* bounds of the source loops
tpReplaceUpperOnly(h, loc) ==
    LET old == Reach(h, h[loc.loop_i].upper_bound_)
                 \cup Reach(h, h[loc.loop_j].upper_bound_)
    IN  [heap |-> [h EXCEPT ![loc.loop_i].upper_bound_ = loc.loop_i_upper,
                            ![loc.loop_j].upper_bound_ = loc.loop_j_upper],
         dead |-> old,
         loc |-> [loc EXCEPT !.loop_i_upper = nullptr, !.loop_j_upper = nullptr]]

\* lines 128-131: the bounds of the copied loops are replaced; assigning to
\* a unique_ptr destroys the subtree it owned
tpReplaceBounds(h, loc) ==
    LET li == deepCopy(h, loc.var_ii)
        lj == deepCopy(li.heap, loc.var_jj)
        old == Reach(h, h[loc.loop_i].lower_bound_)
                 \cup Reach(h, h[loc.loop_j].lower_bound_)
                 \cup Reach(h, h[loc.loop_i].upper_bound_)
                 \cup Reach(h, h[loc.loop_j].upper_bound_)
    IN  [heap |-> [lj.heap EXCEPT ![loc.loop_i].lower_bound_ = li.id,
                                  ![loc.loop_j].lower_bound_ = lj.id,
                                  ![loc.loop_i].upper_bound_ = loc.loop_i_upper,
                                  ![loc.loop_j].upper_bound_ = loc.loop_j_upper],
         dead |-> old,
         loc |-> [loc EXCEPT !.loop_i_upper = nullptr, !.loop_j_upper = nullptr]]

\* the Loop node over copied bounds and step, with an empty body
loopOver(name, k) == make_unique(k.heap, Loop(name, k.ids[1], k.ids[2], k.ids[3], <<>>))

\* a tile loop that steps by the step of the source loop instead of by T
tileLoopOgStep(h, name, og_loop, var_t) ==
    loopOver(name, deepCopyVector(h, <<h[og_loop].lower_bound_, h[og_loop].upper_bound_,
                                       h[og_loop].step_>>))

\* lines 133-140: Loop(name, copy of og lower, copy of og upper, copy of var_t)
tileLoop(h, name, og_loop, var_t) ==
    loopOver(name, deepCopyVector(h, <<h[og_loop].lower_bound_, h[og_loop].upper_bound_,
                                       var_t>>))

tpTileLoops(h, loc) ==
    LET jj == tileLoop(h, name_jj, loc.og_loop_j, loc.var_t)
        ii == tileLoop(jj.heap, name_ii, loc.og_loop_i, loc.var_t)
    IN  [heap |-> ii.heap,
         loc |-> [loc EXCEPT !.loop_jj = jj.id, !.loop_ii = ii.id]]

\* a re-homing that leaves cpy and loop_jj holding the nodes they gave away
tpRehomeKeep(h, loc) ==
    [heap |-> [h EXCEPT ![loc.loop_jj].body_ = Append(h[loc.loop_jj].body_, loc.cpy),
                        ![loc.loop_ii].body_ = Append(h[loc.loop_ii].body_, loc.loop_jj)],
     loc |-> loc]

\* lines 142-143: the copy moves into loop_jj, loop_jj moves into loop_ii
tpRehome(h, loc) ==
    [heap |-> [h EXCEPT ![loc.loop_jj].body_ = Append(h[loc.loop_jj].body_, loc.cpy),
                        ![loc.loop_ii].body_ = Append(h[loc.loop_ii].body_, loc.loop_jj)],
     loc |-> [loc EXCEPT !.cpy = nullptr, !.loop_jj = nullptr]]

\* line 145: loop_ii is returned; the locals that still own a node destroy it
tpReturn(h, loc) ==
    [result |-> loc.loop_ii,
     dead |-> UNION { Reach(h, p) : p \in { loc.cpy, loc.var_ii, loc.var_jj, loc.var_t,
                                             loc.add_ii_t, loc.add_jj_t,
                                             loc.loop_i_upper, loc.loop_j_upper,
                                             loc.loop_jj } }]

(***************************************************************************)
(* CodeGenerator.cpp                                                       *)
(***************************************************************************)
\* the string literals of CodeGenerator.cpp
TEXT_DECIMALS == <<".", "0", "0", "0", "0", "0", "0">>

TEXT_COMMA == <<",", " ">>

TEXT_PLUS == <<" ", "+", " ">>

TEXT_TIMES == <<" ", "*", " ">>

TEXT_MIN == <<"s", "t", "d", ":", ":", "m", "i", "n", "(">>

TEXT_NULL_EXPR == <<"/", "*", " ", "N", "U", "L", "L", "_", "E", "X", "P", "R", " ", "*", "/">>

TEXT_UNHANDLED == <<"/", "*", " ", "U", "N", "H", "A", "N", "D", "L", "E", "D", "_", "E", "X", "P", "R", "_", "T", "Y", "P", "E", " ", "*", "/">>

TEXT_INVALID_TARGET == <<"/", "*", " ", "I", "N", "V", "A", "L", "I", "D", "_", "T", "A", "R", "G", "E", "T", " ", "*", "/">>

TEXT_FOR == <<"f", "o", "r", " ", "(", "i", "n", "t", " ">>

TEXT_ASSIGN == <<" ", "=", " ">>

TEXT_SEMI == <<";", " ">>

TEXT_LESS == <<" ", "<", " ">>

TEXT_STEP == <<" ", "+", "=", " ">>

TEXT_OPEN == <<")", " ", "{", "\n">>

TEXT_CLOSE == <<"}", "\n">>

TEXT_END == <<";", "\n">>

digitChar(d) ==
    CASE d = 0 -> "0" [] d = 1 -> "1" [] d = 2 -> "2" [] d = 3 -> "3"
      [] d = 4 -> "4" [] d = 5 -> "5" [] d = 6 -> "6" [] d = 7 -> "7"
      [] d = 8 -> "8" [] d = 9 -> "9"

RECURSIVE digits(_)
digits(n) ==
    IF n < 10 THEN <<digitChar(n)>>
    ELSE digits(n \div 10) \o <<digitChar(n % 10)>>

\* std::to_string of the alternative the variant holds; a float or double
\* (whole-valued in this model) prints six decimals
to_string(value) ==
    LET whole == IF value.v < 0 THEN <<"-">> \o digits(0 - value.v) ELSE digits(value.v)
    IN  IF value.alt \in {"float", "double"}
        THEN whole \o TEXT_DECIMALS
        ELSE whole

\* what undefined behaviour prints
Garbage == <<"?">>

RECURSIVE joinIndices(_, _)
RECURSIVE generateExpression(_)
\* a join that renders the indices from the last to the first
joinIndicesReversed(indices, i) ==
    IF i > Len(indices) THEN <<>>
    ELSE generateExpression(indices[Len(indices) + 1 - i])
         \o (IF i < Len(indices) THEN TEXT_COMMA ELSE <<>>)
         \o joinIndices(indices, i + 1)

\* lines 55-59 and 110-114: the indices of an access, separated by ", "
joinIndices(indices, i) ==
    IF i > Len(indices) THEN <<>>
    ELSE generateExpression(indices[i])
         \o (IF i < Len(indices) THEN TEXT_COMMA ELSE <<>>)
         \o joinIndices(indices, i + 1)

generateExpression(node) ==
    CASE node.type = "Null" -> TEXT_NULL_EXPR
      [] node.type = "Dangling" -> Garbage
      [] node.type = "Const" -> to_string(node.value_)
      [] node.type = "Variable" -> node.name_
      [] node.type = "Add" ->
            <<"(">> \o generateExpression(node.operand_one_) \o TEXT_PLUS
                    \o generateExpression(node.operand_two_) \o <<")">>
      [] node.type = "Mul" ->
            <<"(">> \o generateExpression(node.operand_one_) \o TEXT_TIMES
                    \o generateExpression(node.operand_two_) \o <<")">>
      [] node.type = "Min" ->
            TEXT_MIN \o generateExpression(node.operand_one_) \o TEXT_COMMA
                     \o generateExpression(node.operand_two_) \o <<")">>
      [] node.type = "Load" ->
            node.tensor_ \o <<"[">> \o joinIndices(node.indices_, 1) \o <<"]">>
      [] OTHER -> TEXT_UNHANDLED

\* indent_level_code_gen: depth * 4 spaces
indent_level_code_gen(depth) == [k \in 1..(depth * 4) |-> " "]

\* the target text of an Assign; a null target is dereferenced
targetText(target) ==
    CASE target.type = "Store" ->
            target.tensor_ \o <<"[">> \o joinIndices(target.indices_, 1) \o <<"]">>
      [] target.type = "Variable" -> target.name_
      [] target.type \in {"Null", "Dangling"} -> Garbage
      [] OTHER -> TEXT_INVALID_TARGET

RECURSIVE codeGeneration(_, _), codeGenerationBody(_, _)
\* a body loop that renders every child twice
codeGenerationBodyTwice(body, depth) ==
    IF body = <<>> THEN <<>>
    ELSE codeGeneration(Head(body), depth) \o codeGeneration(Head(body), depth)
         \o codeGenerationBody(Tail(body), depth)

\* lines 97-99: the children of a Loop, in order
codeGenerationBody(body, depth) ==
    IF body = <<>> THEN <<>>
    ELSE codeGeneration(Head(body), depth) \o codeGenerationBody(Tail(body), depth)

codeGeneration(root, depth) ==
    CASE root.type = "Null" -> <<>>
      [] root.type = "Dangling" -> Garbage
      [] root.type = "Loop" ->
            indent_level_code_gen(depth)
            \o TEXT_FOR \o root.index_ \o TEXT_ASSIGN \o generateExpression(root.lower_bound_)
            \o TEXT_SEMI \o root.index_ \o TEXT_LESS \o generateExpression(root.upper_bound_)
            \o TEXT_SEMI \o root.index_ \o TEXT_STEP \o generateExpression(root.step_)
            \o TEXT_OPEN
            \o codeGenerationBody(root.body_, depth + 1)
            \o indent_level_code_gen(depth) \o TEXT_CLOSE
      [] root.type = "Assign" ->
            indent_level_code_gen(depth)
            \o targetText(root.target_) \o TEXT_ASSIGN
            \o generateExpression(root.value_) \o TEXT_END
      [] OTHER -> indent_level_code_gen(depth)

(***************************************************************************)
(* What the generated loop nest does when it runs: the text of a Loop is   *)
(*   for (int index = lower; index < upper; index += step) { body }        *)
(* (CodeGenerator.cpp lines 92-101), so the bounds are integer expressions *)
(* over the enclosing indices and the free symbols, given by env.  Exec is *)
(* the sequence of environments in which the Assign statements run.        *)
(***************************************************************************)
RECURSIVE Eval(_, _)
Eval(e, env) ==
    CASE e.type = "Const" -> e.value_.v
      [] e.type = "Variable" -> env[e.name_]
      [] e.type = "Add" -> Eval(e.operand_one_, env) + Eval(e.operand_two_, env)
      [] e.type = "Mul" -> Eval(e.operand_one_, env) * Eval(e.operand_two_, env)
      [] e.type = "Min" ->
            LET a == Eval(e.operand_one_, env)
                b == Eval(e.operand_two_, env)
            IN  IF b < a THEN b ELSE a

RECURSIVE Exec(_, _), ExecBody(_, _), ExecFrom(_, _, _)
ExecBody(body, env) ==
    IF body = <<>> THEN <<>>
    ELSE Exec(Head(body), env) \o ExecBody(Tail(body), env)

\* the iterations of loop from the index value i on
ExecFrom(loop, env, i) ==
    LET e == (loop.index_ :> i) @@ env
    IN  IF i < Eval(loop.upper_bound_, e)
        THEN ExecBody(loop.body_, e) \o ExecFrom(loop, env, i + Eval(loop.step_, e))
        ELSE <<>>

Exec(t, env) ==
    CASE t.type = "Loop" -> ExecFrom(t, env, Eval(t.lower_bound_, env))
      [] t.type = "Assign" -> <<env>>
      [] OTHER -> <<>>

(***************************************************************************)
(* The inputs the driver hands to the compiler.                            *)
(***************************************************************************)
IndexNames == <<"i", "j", "k", "l", "m">>

UpperNames == <<"N", "M", "K", "L", "P">>

LowerNames == <<"a", "b", "c", "d", "e">>

StepNames == <<"s", "t", "u", "v", "w">>

\* the text of header n: "sym" is i=0:N:1, "free" is i=a:N:s, "num" is i=1:3:2
Header(n, style) ==
    <<IndexNames[n], "=">>
    \o (CASE style = "sym" -> <<"0", ":", UpperNames[n], ":", "1">>
          [] style = "free" -> <<LowerNames[n], ":", UpperNames[n], ":", StepNames[n]>>
          [] style = "num" -> <<"1", ":", "3", ":", "2">>)

RECURSIVE Headers(_, _, _)
Headers(k, style, spaced) ==
    IF k = 0 THEN <<>>
    ELSE (IF k = 1 THEN <<>>
          ELSE Headers(k - 1, style, spaced) \o <<",">>)
         \o (IF spaced THEN <<" ">> ELSE <<>>) \o Header(k, style)

\* the statements after BODY:
BODY_1 == <<"C", "[", "i", ",", "j", "]", "=", "A", "[", "i", ",", "j", "]", "+", "B", "[", "i", ",", "j", "]">>

BODY_2 == <<"C", "[", "i", ",", "j", "]", "=", "A", "[", "j", ",", "i", "]">>

BODY_3 == <<"C", "[", "i", ",", "j", "]", "=", "C", "[", "i", ",", "j", "]", "+", "(", "A", "[", "i", ",", "j", "]", "*", "B", "[", "i", ",", "j", "]", ")">>

BODY_4 == <<"C", "[", "i", ",", "j", "]", "=", "A", "[", "i", ",", "j", "]", "+", "B", "[", "i", ",", "j", "]", "*", "C", "[", "i", ",", "j", "]">>

BODY_5 == <<"C", "[", "i", ",", "j", "]", "=", "(", "A", "[", "i", ",", "j", "]", "+", "B", "[", "i", ",", "j", "]", ")">>

BODY_6 == <<"C", "[", "i", ",", "j", "]", "=", "A", "[", "i", ",", "j", "]", "*", "(", "B", "[", "i", ",", "j", "]", "+", "C", "[", "i", ",", "j", "]", ")">>

BODY_7 == <<"C", "[", "i", ",", "j", "]", "=", "(", "A", "[", "i", ",", "j", "]", "+", "B", "[", "i", ",", "j", "]", ")", "*", "(", "C", "[", "i", ",", "j", "]", "+", "A", "[", "i", ",", "j", "]", ")">>

Bodies ==
    << BODY_1,
       BODY_2,
       BODY_3,
       BODY_4,
       BODY_5,
       BODY_6,
       BODY_7 >>

\* a program text with k loop headers
Program(k, style, spaced, b) ==
    LoopsMarker \o Headers(k, style, spaced)
    \o (IF spaced THEN <<" ">> ELSE <<>>) \o BodyMarker
    \o (IF spaced THEN <<" ">> ELSE <<>>) \o Bodies[b]

Styles == {"sym", "free", "num"}

\* the programs the driver can give: the number of headers, their style,
\* whether tokens are separated by blanks as in main.cpp, and the statement
Programs ==
    { [k |-> k, style |-> style, spaced |-> FALSE, b |-> 1] :
        k \in 1..MaxLoops, style \in Styles }
    \cup { [k |-> k, style |-> "sym", spaced |-> TRUE, b |-> 1] : k \in 1..MaxLoops }
    \cup { [k |-> 1, style |-> "sym", spaced |-> spaced, b |-> b] :
             spaced \in BOOLEAN, b \in 1..Len(Bodies) }

Text(p) == Program(p.k, p.style, p.spaced, p.b)

\* the two-loop scenario texts: matrix addition, and the transposition of
\* main.cpp TEST 3
SCENARIO_A == <<"L", "O", "O", "P", "S", ":", " ", "i", "=", "0", ":", "N", ":", "1", ",", " ", "j", "=", "0", ":", "M", ":", "1", " ", "B", "O", "D", "Y", ":", " ", "C", "[", "i", ",", "j", "]", " ", "=", " ", "A", "[", "i", ",", "j", "]", " ", "+", " ", "B", "[", "i", ",", "j", "]">>

SCENARIO_C == <<"L", "O", "O", "P", "S", ":", " ", "i", "=", "0", ":", "N", ":", "1", ",", " ", "j", "=", "0", ":", "M", ":", "1", " ", "B", "O", "D", "Y", ":", " ", "C", "[", "i", ",", "j", "]", " ", "=", " ", "A", "[", "j", ",", "i", "]">>

Scenarios ==
    { [name |-> "A", text |-> SCENARIO_A],
      [name |-> "C", text |-> SCENARIO_C] }

\* texts outside the grammar: a missing marker, an access without a
\* matching bracket pair, an access whose index count is not the rank
Malformed ==
    { [case |-> "noLoops", text |-> <<"L", "O", "O", "P", ":", "i", "=", "0", ":", "N", ":", "1", "B", "O", "D", "Y", ":", "C", "[", "i", ",", "j", "]", "=", "A", "[", "i", ",", "j", "]", "+", "B", "[", "i", ",", "j", "]">>],
      [case |-> "noBody", text |-> <<"L", "O", "O", "P", "S", ":", "i", "=", "0", ":", "N", ":", "1", "C", "[", "i", ",", "j", "]", "=", "A", "[", "i", ",", "j", "]", "+", "B", "[", "i", ",", "j", "]">>],
      [case |-> "bracket", text |-> <<"L", "O", "O", "P", "S", ":", "i", "=", "0", ":", "N", ":", "1", "B", "O", "D", "Y", ":", "C", "[", "i", ",", "j", "]", "=", "A", "]", "i", "[">>],
      [case |-> "bracket", text |-> <<"L", "O", "O", "P", "S", ":", "i", "=", "0", ":", "N", ":", "1", "B", "O", "D", "Y", ":", "C", "]", "i", "[", "=", "A", "[", "i", ",", "j", "]">>],
      [case |-> "bracket", text |-> <<"L", "O", "O", "P", "S", ":", "i", "=", "0", ":", "N", ":", "1", "B", "O", "D", "Y", ":", "C", "[", "i", ",", "j", "]", "=", "A", "[", "i", ",", "j">>],
      [case |-> "bracket", text |-> <<"L", "O", "O", "P", "S", ":", "i", "=", "0", ":", "N", ":", "1", "B", "O", "D", "Y", ":", "C", "[", "i", ",", "j", "]", "=", "A", "i", ",", "j", "]">>],
      [case |-> "bracket", text |-> <<"L", "O", "O", "P", "S", ":", "i", "=", "0", ":", "N", ":", "1", "B", "O", "D", "Y", ":", "C", "i", ",", "j", "]", "=", "A", "[", "i", ",", "j", "]">>],
      [case |-> "bracket", text |-> <<"L", "O", "O", "P", "S", ":", "i", "=", "0", ":", "N", ":", "1", "B", "O", "D", "Y", ":", "C", "[", "i", ",", "j", "=", "A", "[", "i", ",", "j", "]">>],
      [case |-> "rank", text |-> <<"L", "O", "O", "P", "S", ":", "i", "=", "0", ":", "N", ":", "1", "B", "O", "D", "Y", ":", "C", "[", "i", ",", "j", "]", "=", "A", "[", "i", "]">>],
      [case |-> "rank", text |-> <<"L", "O", "O", "P", "S", ":", "i", "=", "0", ":", "N", ":", "1", "B", "O", "D", "Y", ":", "C", "[", "i", ",", "j", "]", "=", "A", "[", "i", ",", "j", ",", "k", "]">>],
      [case |-> "rank", text |-> <<"L", "O", "O", "P", "S", ":", "i", "=", "0", ":", "N", ":", "1", "B", "O", "D", "Y", ":", "C", "[", "i", ",", "j", "]", "=", "A", "[", "]">>],
      [case |-> "rank", text |-> <<"L", "O", "O", "P", "S", ":", "i", "=", "0", ":", "N", ":", "1", "B", "O", "D", "Y", ":", "C", "[", "i", ",", "j", "]", "=", "A", "[", "i", ",", ",", "j", "]">>],
      [case |-> "rank", text |-> <<"L", "O", "O", "P", "S", ":", "i", "=", "0", ":", "N", ":", "1", "B", "O", "D", "Y", ":", "C", "[", "i", "]", "=", "A", "[", "i", ",", "j", "]">>] }

\* trees built directly with the constructors of IR.hpp
Idx(n) == Variable(<<n>>)

Int32(v) == Const(v, "int", "Int32")

AssignCA == Assign(Store(<<"C">>, <<Idx("i"), Idx("j")>>),
                   Load(<<"A">>, <<Idx("i"), Idx("j")>>))

AssignScalar == Assign(Idx("x"),
                       Add(Load(<<"B">>, <<Idx("j")>>), Const(2, "float", "Float32")))

LoopJ(body) == Loop(<<"j">>, Int32(0), Idx("M"), Int32(1), body)

LoopI(body) == Loop(<<"i">>, Int32(0), Idx("N"), Int32(1), body)

\* a statement whose target is a Load
AssignToLoad == Assign(Load(<<"C">>, <<Idx("i"), Idx("j")>>),
                       Load(<<"A">>, <<Idx("i"), Idx("j")>>))

\* a tree that holds all nine kinds, a 64-bit literal and a float literal
AllKinds ==
    Loop(<<"i">>, Const(0, "long long", "Int64"),
         Min(Idx("N"), Mul(Int32(2), Idx("M"))), Int32(1),
         <<LoopJ(<<AssignCA>>), AssignScalar>>)

Trees ==
    { \* a clean nest whose bounds are negative and positive literals
      Loop(<<"i">>, Int32(0 - 1), Int32(MaxN), Int32(2),
           <<Loop(<<"j">>, Int32(1), Int32(MaxN), Int32(1), <<AssignCA>>)>>),
      \* a clean nest whose bounds are compound expressions
      Loop(<<"i">>, Int32(0), Min(Idx("N"), Mul(Int32(2), Idx("M"))), Int32(1),
           <<Loop(<<"j">>, Idx("a"), Add(Idx("M"), Int32(1)), Idx("s"),
                  <<AssignScalar>>)>>),
      AllKinds,
      \* the nest of main.cpp: [0,N) step 1 around [0,M) step 1
      LoopI(<<LoopJ(<<AssignCA>>)>>),
      \* a clean nest whose outer bound is written with a symbol named T
      Loop(<<"i">>, Int32(0), Mul(Int32(2), Idx("T")), Int32(1),
           <<LoopJ(<<AssignCA>>)>>),
      \* a triangular nest: the inner bound refers to the outer index
      LoopI(<<Loop(<<"j">>, Int32(0), Add(Idx("i"), Int32(1)), Int32(1), <<AssignCA>>)>>),
      \* a clean nest around a statement whose target is a Load
      LoopI(<<LoopJ(<<AssignToLoad>>)>>),
      \* shapes that are not a clean two-level nest
      AssignCA,
      Idx("N"),
      Loop(<<"i">>, Int32(0), Idx("N"), Null, <<>>),
      LoopI(<<AssignCA>>),
      LoopI(<<AssignCA, LoopJ(<<AssignCA>>)>>),
      LoopI(<<LoopJ(<<AssignCA, AssignScalar>>)>>),
      LoopI(<<LoopJ(<<>>)>>) }

\* a clean two-level nest around one statement
Clean(t) ==
    /\ t.type = "Loop"
    /\ Len(t.body_) = 1
    /\ t.body_[1].type = "Loop"
    /\ Len(t.body_[1].body_) = 1
    /\ t.body_[1].body_[1].type = "Assign"

(***************************************************************************)
(* The state: the heap, the driver's three owning pointers (the tree it    *)
(* built, a deepCopy of it, the tilingPass of it), the position inside     *)
(* tilingPass and its locals, and the text last written to the stream.     *)
(***************************************************************************)
VARIABLES
    heap,      \* the sequence of all nodes ever made
    freed,     \* the ids of the nodes destroyed
    ptr,       \* handle -> the node the driver's unique_ptr owns
    st,        \* handle -> "none", "live", "destroyed" or "garbage"
    pc,        \* "start", "idle", a position inside tilingPass, or "crashed"
    loc,       \* the locals of tilingPass
    input,     \* what the driver gave: a text or a tree
    built,     \* what buildUntiledIR returned: a tree or an Error
    out,       \* the text of the last codeGeneration
    last,      \* the last call that completed
    raised,    \* the exception the last call ended with, or "none"
    snap,      \* handle -> the tree its owner last made it (history)
    edits,     \* how many bounds the driver has replaced
    frames     \* the activations of parseExpression, the innermost last

vars == <<heap, freed, ptr, st, pc, loc, input, built, out, last, raised, snap, edits,
          frames>>

Handles == {"original", "copy", "tiled"}

Init ==
    /\ heap = <<>>
    /\ freed = {}
    /\ ptr = [h \in Handles |-> nullptr]
    /\ st = [h \in Handles |-> "none"]
    /\ pc = "start"
    /\ loc = NoLocals
    /\ input = [kind |-> "none"]
    /\ built = Null
    /\ out = <<>>
    /\ last = "none"
    /\ raised = "none"
    /\ snap = [h \in Handles |-> Null]
    /\ edits = 0
    /\ frames = <<>>

\* buildUntiledIR(text) called by the driver, which keeps the tree returned
\* or catches the exception thrown
ParseText(text, given) ==
    /\ pc = "start"
    /\ LET r == buildUntiledIR(text)
           c == construct(heap, r)
       IN  /\ built' = r
           /\ input' = given
           /\ IF IsError(r)
              THEN /\ \E e \in r.what : raised' = e
                   /\ UNCHANGED <<heap, ptr, st, snap>>
              ELSE /\ raised' = "none"
                   /\ heap' = c.heap
                   /\ ptr' = [ptr EXCEPT !["original"] = c.id]
                   /\ st' = [st EXCEPT !["original"] = "live"]
                   /\ snap' = [snap EXCEPT !["original"] = r]
    /\ pc' = "idle"
    /\ last' = "buildUntiledIR"
    /\ UNCHANGED <<freed, loc, out, edits, frames>>

\* main.cpp lines 18, 61: the driver parses a program text
Parse(p) ==
    ParseText(Text(p), [kind |-> "text", text |-> Text(p), k |-> p.k, b |-> p.b])

\* the driver parses a text that is outside the grammar
ParseMalformed(m) ==
    ParseText(m.text, [kind |-> "malformed", text |-> m.text, case |-> m.case])

\* the driver parses one of the scenario texts
ParseScenario(sc) ==
    ParseText(sc.text, [kind |-> "scenario", text |-> sc.text, name |-> sc.name])

\* a driver that builds its tree with the constructors of IR.hpp
Construct(t) ==
    /\ pc = "start"
    /\ LET c == construct(heap, t)
       IN  /\ heap' = c.heap
           /\ ptr' = [ptr EXCEPT !["original"] = c.id]
    /\ st' = [st EXCEPT !["original"] = "live"]
    /\ snap' = [snap EXCEPT !["original"] = t]
    /\ input' = [kind |-> "tree", tree |-> t]
    /\ pc' = "idle"
    /\ last' = "construct"
    /\ UNCHANGED <<freed, loc, built, out, edits, raised, frames>>

\* TilingPass.hpp: deepCopy called on the driver's tree.  A run of the driver
\* either copies its tree or tiles it.
CallDeepCopy ==
    /\ pc = "idle"
    /\ st["original"] = "live"
    /\ st["copy"] = "none"
    /\ st["tiled"] = "none"
    /\ LET c == deepCopy(heap, ptr["original"])
       IN  /\ heap' = c.heap
           /\ ptr' = [ptr EXCEPT !["copy"] = c.id]
           /\ snap' = [snap EXCEPT !["copy"] = Read(c.heap, freed, c.id)]
    /\ st' = [st EXCEPT !["copy"] = "live"]
    /\ last' = "deepCopy"
    /\ UNCHANGED <<freed, pc, loc, input, built, out, edits, raised, frames>>

\* tilingPass, lines 106-112
TpCopy ==
    /\ pc = "idle"
    /\ st["original"] = "live"
    /\ st["tiled"] = "none"
    /\ st["copy"] = "none"
    /\ CastsDefined(heap, ptr["original"])
    /\ LET r == tpCopy(heap, ptr["original"])
       IN  heap' = r.heap /\ loc' = r.loc
    /\ pc' = "tp_fresh"
    /\ UNCHANGED <<freed, ptr, st, input, built, out, last, snap, edits, raised, frames>>

\* tilingPass on a tree for which its casts are undefined: the build can
\* crash, or return a pointer to a tree of garbage; no exception is thrown
TpUndefined ==
    /\ pc = "idle"
    /\ st["original"] = "live"
    /\ st["tiled"] = "none"
    /\ st["copy"] = "none"
    /\ ~CastsDefined(heap, ptr["original"])
    /\ \/ /\ pc' = "crashed"
          /\ UNCHANGED st
       \/ /\ pc' = "idle"
          /\ st' = [st EXCEPT !["tiled"] = "garbage"]
    /\ last' = "tilingPass"
    /\ UNCHANGED <<heap, freed, ptr, loc, input, built, out, snap, edits, raised, frames>>

\* tilingPass, lines 114-116
TpFresh ==
    /\ pc = "tp_fresh"
    /\ LET r == tpFresh(heap, loc)
       IN  heap' = r.heap /\ loc' = r.loc
    /\ pc' = "tp_adds"
    /\ UNCHANGED <<freed, ptr, st, input, built, out, last, snap, edits, raised, frames>>

\* tilingPass, lines 118-121
TpAdds ==
    /\ pc = "tp_adds"
    /\ LET r == tpAdds(heap, loc)
       IN  heap' = r.heap /\ loc' = r.loc
    /\ pc' = "tp_uppers"
    /\ UNCHANGED <<freed, ptr, st, input, built, out, last, snap, edits, raised, frames>>

\* tilingPass, lines 123-126
TpUppers ==
    /\ pc = "tp_uppers"
    /\ LET r == tpUppers(heap, loc)
       IN  heap' = r.heap /\ loc' = r.loc
    /\ pc' = "tp_bounds"
    /\ UNCHANGED <<freed, ptr, st, input, built, out, last, snap, edits, raised, frames>>

\* tilingPass, lines 128-131
TpReplaceBounds ==
    /\ pc = "tp_bounds"
    /\ LET r == tpReplaceBounds(heap, loc)
       IN  heap' = r.heap /\ loc' = r.loc /\ freed' = freed \cup r.dead
    /\ pc' = "tp_loops"
    /\ UNCHANGED <<ptr, st, input, built, out, last, snap, edits, raised, frames>>

\* tilingPass, lines 133-140
TpTileLoops ==
    /\ pc = "tp_loops"
    /\ LET r == tpTileLoops(heap, loc)
       IN  heap' = r.heap /\ loc' = r.loc
    /\ pc' = "tp_rehome"
    /\ UNCHANGED <<freed, ptr, st, input, built, out, last, snap, edits, raised, frames>>

\* tilingPass, lines 142-143
TpRehome ==
    /\ pc = "tp_rehome"
    /\ LET r == tpRehome(heap, loc)
       IN  heap' = r.heap /\ loc' = r.loc
    /\ pc' = "tp_return"
    /\ UNCHANGED <<freed, ptr, st, input, built, out, last, snap, edits, raised, frames>>

\* tilingPass, line 145, and the driver's tiled_..._ir_root taking the result
TpReturn ==
    /\ pc = "tp_return"
    /\ LET r == tpReturn(heap, loc)
       IN  /\ ptr' = [ptr EXCEPT !["tiled"] = r.result]
           /\ freed' = freed \cup r.dead
           /\ snap' = [snap EXCEPT !["tiled"] = Read(heap, freed \cup r.dead, r.result)]
    /\ st' = [st EXCEPT !["tiled"] = "live"]
    /\ loc' = NoLocals
    /\ pc' = "idle"
    /\ last' = "tilingPass"
    /\ UNCHANGED <<heap, input, built, out, edits, raised, frames>>

\* codeGeneration(root, 1, os) on one of the driver's trees, as
\* generateCodeFiles calls it (line 167)
Generate(h) ==
    /\ pc = "idle"
    /\ st[h] = "live"
    /\ out' = codeGeneration(Read(heap, freed, ptr[h]), 1)
    /\ last' = "codeGeneration"
    /\ UNCHANGED <<heap, freed, ptr, st, pc, loc, input, built, snap, edits, raised, frames>>

\* one of the driver's unique_ptrs goes out of scope: ~IRNode destroys the
\* whole subtree it owns
Destroy(h) ==
    /\ pc = "idle"
    /\ st[h] = "live"
    /\ freed' = freed \cup Reach(heap, ptr[h])
    /\ ptr' = [ptr EXCEPT ![h] = nullptr]
    /\ st' = [st EXCEPT ![h] = "destroyed"]
    /\ last' = "destroy"
    /\ UNCHANGED <<heap, pc, loc, input, built, out, snap, edits, raised, frames>>

\* whole-subtree replacement by the owner of tree h: the upper bound of its
\* root Loop becomes a new Const, as tilingPass does to its copy at line 130
ReplaceBound(h) ==
    /\ pc = "idle"
    /\ st[h] = "live"
    /\ edits < MaxEdits
    /\ heap[ptr[h]].type = "Loop"
    /\ LET c == make_unique(heap, Int32(2 + edits))
           h2 == [c.heap EXCEPT ![ptr[h]].upper_bound_ = c.id]
           dead == freed \cup Reach(heap, heap[ptr[h]].upper_bound_)
       IN  /\ heap' = h2
           /\ freed' = dead
           /\ snap' = [snap EXCEPT ![h] = Read(h2, dead, ptr[h])]
    /\ edits' = edits + 1
    /\ last' = "replace"
    /\ UNCHANGED <<ptr, st, pc, loc, input, built, out, raised, frames>>

Next ==
    \/ \E p \in Programs : Parse(p)
    \/ \E m \in Malformed : ParseMalformed(m)
    \/ \E sc \in Scenarios : ParseScenario(sc)
    \/ \E t \in Trees : Construct(t)
    \/ CallDeepCopy
    \/ TpCopy
    \/ TpUndefined
    \/ TpFresh
    \/ TpAdds
    \/ TpUppers
    \/ TpReplaceBounds
    \/ TpTileLoops
    \/ TpRehome
    \/ TpReturn
    \/ \E h \in Handles : Generate(h)
    \/ \E h \in Handles : Destroy(h)
    \/ \E h \in Handles : ReplaceBound(h)

Spec == Init /\ [][Next]_vars

(***************************************************************************)
(* The construction of one Tensor, for every declared rank and every list  *)
(* of extents within the bounds.                                           *)
(***************************************************************************)
\* the extents a dimension is given: 0, 1, 2, 1024 and 2^32
ExtentValues ==
    { size_t(0), size_t(1), size_t(2), size_t(1024),
      mulSize(size_t(65536), size_t(65536)) }

\* the arguments of the constructor
TensorArguments ==
    { [kind |-> "tensor", name |-> <<"T">>, dtype |-> "Float32",
       dims |-> dims, extents |-> extents] :
        dims \in 0..MaxRank,
        extents \in UNION { [1..n -> ExtentValues] : n \in 0..MaxRank } }

TensorInit ==
    /\ heap = <<>>
    /\ freed = {}
    /\ ptr = [h \in Handles |-> nullptr]
    /\ st = [h \in Handles |-> "none"]
    /\ pc = "start"
    /\ loc = NoLocals
    /\ input \in TensorArguments
    /\ built = Null
    /\ out = <<>>
    /\ last = "none"
    /\ raised = "none"
    /\ snap = [h \in Handles |-> Null]
    /\ edits = 0
    /\ frames = <<>>

\* Tensor T(name, dtype, dims, extents): the Tensor constructed, or the
\* exception the constructor throws
TensorConstruct ==
    /\ pc = "start"
    /\ built' = Tensor(input.name, input.dtype, input.dims, input.extents)
    /\ raised' = IF input.dims # Len(input.extents) THEN "invalid_argument" ELSE "none"
    /\ pc' = "idle"
    /\ last' = "Tensor"
    /\ UNCHANGED <<heap, freed, ptr, st, loc, input, out, snap, edits, frames>>

TensorNext == TensorConstruct

TensorSpec == TensorInit /\ [][TensorNext]_vars

(***************************************************************************)
(* parseExpression (IRBuilder.cpp lines 82-110), one activation at a time. *)
(* An activation is entered with its argument, makes its two recursive     *)
(* calls (the arguments of make_unique are evaluated in an unspecified     *)
(* order), and returns a node or lets an exception pass.  `built` holds    *)
(* what the activation that ended last returned or threw.                  *)
(***************************************************************************)
\* the right-hand sides given: a1 op1 a2 ... an with every ai one of A[i,j],
\* B[i,j], C[i,j] and every op one of + and *, and texts outside that form
RECURSIVE ExprText(_, _, _)
ExprText(operands, ops, k) ==
    <<operands[k], "[", "i", ",", "j", "]">>
    \o (IF k = Len(operands) THEN <<>>
        ELSE <<ops[k]>> \o ExprText(operands, ops, k + 1))

ExprInputs ==
    UNION { { [kind |-> "expr", text |-> ExprText(operands, ops, 1),
               operands |-> operands, ops |-> ops] :
                operands \in [1..n -> {"A", "B", "C"}],
                ops \in [1..(n - 1) -> {"+", "*"}] } : n \in 1..MaxOperands }
    \cup { [kind |-> "irregular", text |-> text, operands |-> <<>>, ops |-> <<>>] :
             text \in { <<" ">>, <<"+">>, <<"(", ")">>, <<"A">>,
                        <<"A", "[", "i", "]", "+">>,
                        <<"*", "A", "[", "i", "]">>,
                        <<"A", "[", "i", "]", "+", "+", "B", "[", "i", "]">>,
                        <<"(", "A", "[", "i", "]", ")", "*", "(", "B", "[", "i", "]", ")">>,
                        <<"(", "A", "[", "i", "]", "+", "B", "[", "i", "]", ")">>,
                        <<"A", "[", "i", "]", " ", "+", " ", "D", "[", "i", "]">> } }

\* an activation that has just been entered with expr_str; cleaned is its
\* local variable, not yet set, open_bracket and close_bracket are the locals
\* of the parseTensorAccess that its base case calls
Frame(expr_str) ==
    [expr_str |-> expr_str, pos |-> "entry", cleaned |-> <<>>, op |-> "none",
     open_bracket |-> npos, close_bracket |-> npos,
     left |-> <<>>, right |-> <<>>, pending |-> {}, calling |-> "none",
     vals |-> [left |-> Null, right |-> Null]]

ExprInit ==
    /\ heap = <<>>
    /\ freed = {}
    /\ ptr = [h \in Handles |-> nullptr]
    /\ st = [h \in Handles |-> "none"]
    /\ pc = "parsing"
    /\ loc = NoLocals
    /\ input \in ExprInputs
    /\ built = Null
    /\ out = <<>>
    /\ last = "none"
    /\ raised = "none"
    /\ snap = [h \in Handles |-> Null]
    /\ edits = 0
    /\ frames = <<Frame(input.text)>>

\* the innermost activation ends with value (a node, or an exception); when
\* it is the outermost one the call is over
ExprPop(value) ==
    /\ built' = value
    /\ frames' = SubSeq(frames, 1, Len(frames) - 1)
    /\ IF Len(frames) = 1
       THEN /\ pc' = "idle"
            /\ last' = "parseExpression"
            /\ IF IsError(value) THEN \E e \in value.what : raised' = e
                                 ELSE raised' = "none"
       ELSE UNCHANGED <<pc, last, raised>>

\* a string that keeps the whole of cleaned
leftOperandWhole(cleaned, op_pos) == cleaned

\* lines 96 and 104: left = cleaned.substr(0, op_pos)
leftOperand(cleaned, op_pos) == substr(cleaned, 0, op_pos)

\* the activation with pos, op and operand strings set for its operator
Split(frame, op, op_pos) ==
    [frame EXCEPT !.pos = "args", !.op = op,
                  !.left = leftOperand(frame.cleaned, op_pos),
                  !.right = substr(frame.cleaned, op_pos + 1, npos),
                  !.pending = {"left", "right"}]

\* line 83: std::string cleaned = clean_expr(expr_str)
ExprClean ==
    /\ pc = "parsing"
    /\ frames # <<>>
    /\ frames[Len(frames)].pos = "entry"
    /\ frames' = [frames EXCEPT ![Len(frames)].pos = "cleaned",
                                ![Len(frames)].cleaned =
                                    clean_expr(frames[Len(frames)].expr_str)]
    /\ UNCHANGED <<heap, freed, ptr, st, pc, loc, input, built, out, last, raised, snap,
                   edits>>

\* lines 86-109 up to the recursive calls: the base case calls parseLoad,
\* whose parseTensorAccess looks for the two brackets (lines 45-46);
\* otherwise the operands of the rightmost + (else the rightmost *) are cut
\* out; line 109 calls parseExpression on cleaned itself
ExprCall ==
    /\ pc = "parsing"
    /\ frames # <<>>
    /\ frames[Len(frames)].pos = "cleaned"
    /\ IF /\ find(frames[Len(frames)].cleaned, <<"+">>) = npos
          /\ find(frames[Len(frames)].cleaned, <<"*">>) = npos
       THEN frames' = [frames EXCEPT
                           ![Len(frames)].pos = "load",
                           ![Len(frames)].open_bracket =
                               find(frames[Len(frames)].cleaned, <<"[">>),
                           ![Len(frames)].close_bracket =
                               find(frames[Len(frames)].cleaned, <<"]">>)]
       ELSE frames' =
                  IF rfind(frames[Len(frames)].cleaned, "+") # npos
                  THEN [frames EXCEPT ![Len(frames)] =
                           Split(@, "Add", rfind(@.cleaned, "+"))]
                  ELSE IF rfind(frames[Len(frames)].cleaned, "*") # npos
                  THEN [frames EXCEPT ![Len(frames)] =
                           Split(@, "Mul", rfind(@.cleaned, "*"))]
                  ELSE Append([frames EXCEPT ![Len(frames)].pos = "self"],
                              Frame(frames[Len(frames)].cleaned))
    /\ UNCHANGED <<heap, freed, ptr, st, pc, loc, input, built, out, last, raised, snap,
                   edits>>

\* the rest of the base case (parseTensorAccess lines 48-65, parseLoad lines
\* 68-72): the Load of the tensor named before the bracket with one Variable
\* for each piece between the brackets, or the exception
ExprLoad ==
    /\ pc = "parsing"
    /\ frames # <<>>
    /\ frames[Len(frames)].pos = "load"
    /\ ExprPop(
          IF \/ frames[Len(frames)].open_bracket = npos
             \/ frames[Len(frames)].close_bracket = npos
          THEN Error({"runtime_error"})
          ELSE IF substr(frames[Len(frames)].cleaned, 0,
                         frames[Len(frames)].open_bracket) \notin TensorMap
          THEN Error({"out_of_range"})
          ELSE Load(substr(frames[Len(frames)].cleaned, 0,
                           frames[Len(frames)].open_bracket),
                    [k \in 1..Len(split(substr(frames[Len(frames)].cleaned,
                                               frames[Len(frames)].open_bracket + 1,
                                               frames[Len(frames)].close_bracket
                                               - frames[Len(frames)].open_bracket - 1),
                                        ",")) |->
                        Variable(split(substr(frames[Len(frames)].cleaned,
                                              frames[Len(frames)].open_bracket + 1,
                                              frames[Len(frames)].close_bracket
                                              - frames[Len(frames)].open_bracket - 1),
                                       ",")[k])]))
    /\ UNCHANGED <<heap, freed, ptr, st, loc, input, out, snap, edits>>

\* clean_expr line 36 on a string that is empty once its blanks are erased:
\* front() of an empty string is undefined, and a build whose library checks
\* it aborts (a build that reads the terminator goes on, as ExprCall does)
ExprUndefined ==
    /\ pc = "parsing"
    /\ frames # <<>>
    /\ frames[Len(frames)].pos = "entry"
    /\ eraseSpaces(frames[Len(frames)].expr_str) = <<>>
    /\ pc' = "crashed"
    /\ last' = "parseExpression"
    /\ UNCHANGED <<heap, freed, ptr, st, loc, input, built, out, raised, snap, edits,
                   frames>>

\* lines 98 and 106: one of the two recursive calls not yet made is made.  An
\* activation is never nested deeper than its argument is long.
ExprArg ==
    /\ pc = "parsing"
    /\ frames # <<>>
    /\ frames[Len(frames)].pos = "args"
    /\ frames[Len(frames)].calling = "none"
    /\ Len(frames) <= Len(input.text)
    /\ \E side \in frames[Len(frames)].pending :
          frames' = Append([frames EXCEPT ![Len(frames)].calling = side,
                                          ![Len(frames)].pending = @ \ {side}],
                           Frame(frames[Len(frames)][side]))
    /\ UNCHANGED <<heap, freed, ptr, st, pc, loc, input, built, out, last, raised, snap,
                   edits>>

\* a recursive call is over: its node is kept for make_unique, or its
\* exception ends this activation as well
ExprResume ==
    /\ pc = "parsing"
    /\ frames # <<>>
    /\ frames[Len(frames)].pos \in {"args", "self"}
    /\ frames[Len(frames)].calling # "none" \/ frames[Len(frames)].pos = "self"
    /\ IF IsError(built) \/ frames[Len(frames)].pos = "self"
       THEN ExprPop(built)
       ELSE /\ frames' = [frames EXCEPT
                             ![Len(frames)].vals[frames[Len(frames)].calling] = built,
                             ![Len(frames)].calling = "none"]
            /\ UNCHANGED <<pc, built, last, raised>>
    /\ UNCHANGED <<heap, freed, ptr, st, loc, input, out, snap, edits>>

\* lines 98 and 106: both operands are parsed, the Add or the Mul is returned
ExprReturn ==
    /\ pc = "parsing"
    /\ frames # <<>>
    /\ frames[Len(frames)].pos = "args"
    /\ frames[Len(frames)].calling = "none"
    /\ frames[Len(frames)].pending = {}
    /\ ExprPop([type |-> frames[Len(frames)].op,
                operand_one_ |-> frames[Len(frames)].vals.left,
                operand_two_ |-> frames[Len(frames)].vals.right])
    /\ UNCHANGED <<heap, freed, ptr, st, loc, input, out, snap, edits>>

ExprNext ==
    \/ ExprClean
    \/ ExprCall
    \/ ExprLoad
    \/ ExprUndefined
    \/ ExprArg
    \/ ExprResume
    \/ ExprReturn

\* the code is one thread that runs on until the call is over
ExprSpec == ExprInit /\ [][ExprNext]_vars /\ WF_vars(ExprNext)

(***************************************************************************)
(* Properties of tilingPass                                                *)
(***************************************************************************)
\* the positions inside a call of tilingPass
TpPositions == {"tp_fresh", "tp_adds", "tp_uppers", "tp_bounds", "tp_loops", "tp_rehome", "tp_return"}

\* tilingPass has just returned a tree to the driver
Tiled == last = "tilingPass" /\ pc = "idle" /\ st["tiled"] = "live"

\* a bound that is a Const or a Variable
Simple(e) == e.type \in {"Const", "Variable"}

\* the tree the tiling of the clean nest t is to be
ExpectedTiled(t) ==
    LET li == t
        lj == t.body_[1]
        ii == Variable(<<"i", "i">>)
        jj == Variable(<<"j", "j">>)
        T == Variable(<<"T">>)
    IN  Loop(<<"i", "i">>, li.lower_bound_, li.upper_bound_, T,
          << Loop(<<"j", "j">>, lj.lower_bound_, lj.upper_bound_, T,
               << Loop(li.index_, ii, Min(Add(ii, T), li.upper_bound_), li.step_,
                    << Loop(lj.index_, jj, Min(Add(jj, T), lj.upper_bound_), lj.step_,
                            lj.body_) >>) >>) >>)

C2_InputNotMutated ==
    [][ (pc \in TpPositions \/ pc' \in TpPositions)
          => /\ ptr'["original"] = ptr["original"]
             /\ Reach(heap', ptr'["original"]) = Reach(heap, ptr["original"])
             /\ \A id \in Reach(heap, ptr["original"]) :
                    heap'[id] = heap[id] /\ id \notin freed' ]_vars

\* C2 witness: tilingPass has returned and the tree given to it reads as
\* the driver built it
C2_Witness ==
    /\ Tiled
    /\ st["original"] = "live"
    /\ Read(heap, freed, ptr["original"]) = snap["original"]
    /\ Read(heap, freed, ptr["tiled"]) # snap["original"]

\* a clean nest over [0,N) step 1 and [0,M) step 1, N and M Variables
ZeroBased(t) ==
    /\ Clean(t)
    /\ \A l \in {t, t.body_[1]} :
          /\ l.lower_bound_.type = "Const" /\ l.lower_bound_.value_.v = 0
          /\ l.step_.type = "Const" /\ l.step_.value_.v = 1
          /\ l.upper_bound_.type = "Variable"
    /\ t.upper_bound_.name_ # t.body_[1].upper_bound_.name_

\* the runs of the Assign of the tiled tree for concrete N, M and T
TiledRuns(N, M, T) ==
    Exec(Read(heap, freed, ptr["tiled"]),
         (snap["original"].upper_bound_.name_ :> N)
           @@ (snap["original"].body_[1].upper_bound_.name_ :> M)
           @@ (<<"T">> :> T))

\* C3: for source bounds [0,N) step 1 and [0,M) step 1 and every N >= 0,
\* M >= 0, T > 0 the tiled nest runs the Assign exactly once for every (i,j)
\* of [0,N) x [0,M), each inside the tile (ii,jj) of multiples of T with
\* ii <= i < ii+T and jj <= j < jj+T
C3_TilesPartition ==
    (Tiled /\ ZeroBased(snap["original"])) =>
        \A N \in 0..MaxN, M \in 0..MaxN, T \in 1..MaxT :
            LET runs == TiledRuns(N, M, T)
                i == snap["original"].index_
                j == snap["original"].body_[1].index_
            IN  /\ Len(runs) = N * M
                /\ \A x \in 0..(N - 1), y \in 0..(M - 1) :
                      Cardinality({ r \in 1..Len(runs) :
                                      runs[r][i] = x /\ runs[r][j] = y }) = 1
                /\ \A r \in 1..Len(runs) :
                      LET e == runs[r]
                      IN  /\ e[<<"i", "i">>] % T = 0
                          /\ e[<<"j", "j">>] % T = 0
                          /\ e[<<"i", "i">>] <= e[i] /\ e[i] < e[<<"i", "i">>] + T
                          /\ e[<<"j", "j">>] <= e[j] /\ e[j] < e[<<"j", "j">>] + T

\* C3 witness: a nest over [0,N) and [0,M) has been tiled, and with N = MaxN
\* and T = 2 its last tile is a partial one
C3_Witness ==
    /\ Tiled
    /\ ZeroBased(snap["original"])
    /\ Len(TiledRuns(MaxN, MaxN, 2)) = MaxN * MaxN
    /\ \E r \in 1..Len(TiledRuns(MaxN, 1, 2)) :
          TiledRuns(MaxN, 1, 2)[r][<<"i", "i">>] + 2 > MaxN

\* the values a bound takes: its literal, or every value of the range
Values(e, range) == IF e.type = "Const" THEN {e.value_.v} ELSE range

\* the binding of a bound that is a Variable
Bind(e, v) == IF e.type = "Variable" THEN e.name_ :> v ELSE <<>>

\* a clean nest whose six bounds are Consts or Variables
SimpleNest(t) ==
    /\ Clean(t)
    /\ \A l \in {t, t.body_[1]} :
          Simple(l.lower_bound_) /\ Simple(l.upper_bound_) /\ Simple(l.step_)

\* the environments of the nest t: integer lower and upper bounds, steps of
\* at least 1 and a tile width of at least 1
Envs(t) ==
    LET li == t
        lj == t.body_[1]
    IN  { Bind(li.lower_bound_, a) @@ Bind(li.upper_bound_, n) @@ Bind(li.step_, s)
            @@ Bind(lj.lower_bound_, b) @@ Bind(lj.upper_bound_, m) @@ Bind(lj.step_, u)
            @@ (<<"T">> :> T) :
          a \in Values(li.lower_bound_, (0 - 1)..1),
          n \in Values(li.upper_bound_, (0 - 1)..MaxN),
          s \in Values(li.step_, 1..MaxStep),
          b \in Values(lj.lower_bound_, (0 - 1)..1),
          m \in Values(lj.upper_bound_, (0 - 1)..MaxN),
          u \in Values(lj.step_, 1..MaxStep),
          T \in 1..MaxT }

\* the runs of the tiled tree stay inside the bounds of the source nest t
InsideBounds(t, env) ==
    LET li == t
        lj == t.body_[1]
        runs == Exec(Read(heap, freed, ptr["tiled"]), env)
    IN  \A r \in 1..Len(runs) :
            /\ Eval(li.lower_bound_, env) <= runs[r][li.index_]
            /\ runs[r][li.index_] < Eval(li.upper_bound_, env)
            /\ Eval(lj.lower_bound_, env) <= runs[r][lj.index_]
            /\ runs[r][lj.index_] < Eval(lj.upper_bound_, env)

\* the steps of the nest t are at least 1 in env
StepsPositive(t, env) ==
    Eval(t.step_, env) >= 1 /\ Eval(t.body_[1].step_, env) >= 1

\* C4: for any integer bounds, steps >= 1 and tile width T >= 1, every (i,j)
\* at which the tiled nest runs the Assign has lb_i <= i < ub_i and
\* lb_j <= j < ub_j
C4_PointLoopsClamped ==
    (Tiled /\ SimpleNest(snap["original"])) =>
        \A env \in Envs(snap["original"]) :
            StepsPositive(snap["original"], env) => InsideBounds(snap["original"], env)

\* C4 witness: a tiled nest with free bounds runs its Assign in a final
\* partial tile: the tile started at ii reaches past the upper bound
C4_Witness ==
    /\ Tiled
    /\ SimpleNest(snap["original"])
    /\ snap["original"].upper_bound_.type = "Variable"
    /\ \E env \in Envs(snap["original"]) :
          /\ StepsPositive(snap["original"], env)
          /\ \E r \in 1..Len(Exec(Read(heap, freed, ptr["tiled"]), env)) :
                Exec(Read(heap, freed, ptr["tiled"]), env)[r][<<"i", "i">>]
                    + env[<<"T">>] > Eval(snap["original"].upper_bound_, env)

\* C5 (as the specification states it): tilingPass on a tree that is not a
\* clean two-level nest ends with a StructuralPreconditionError and returns
\* no tree
C5_PreconditionChecked ==
    (last = "tilingPass" /\ ~Clean(snap["original"]))
        => (raised = "StructuralPreconditionError" /\ st["tiled"] = "none")

(***************************************************************************)
(* Ownership                                                               *)
(***************************************************************************)
\* the nodes of the tree that handle h owns
Nodes(h) == Reach(heap, ptr[h])

\* the tree of handle h is whole and reads as its owner last made it
Intact(h) ==
    /\ Nodes(h) \cap freed = {}
    /\ Read(heap, freed, ptr[h]) = snap[h]

\* C6: after tiled = tilingPass(root) the two trees share no node, and
\* after any sequence of generate and destroy on them a tree that was not
\* destroyed has no freed node and generates the text of the tree its
\* owner made
C6_TreesIndependent ==
    (pc = "idle" /\ st["tiled"] \in {"live", "destroyed"}) =>
        /\ (st["original"] = "live" /\ st["tiled"] = "live")
              => Nodes("original") \cap Nodes("tiled") = {}
        /\ \A h \in {"original", "tiled"} :
              st[h] = "live" =>
                 /\ Intact(h)
                 /\ codeGeneration(Read(heap, freed, ptr[h]), 1)
                       = codeGeneration(snap[h], 1)
        /\ last = "codeGeneration"
              => \E h \in {"original", "tiled"} :
                    st[h] = "live" /\ out = codeGeneration(snap[h], 1)

\* C6 witness: the original was destroyed first and the tiled tree was then
\* generated from
C6_Witness ==
    /\ st["original"] = "destroyed"
    /\ st["tiled"] = "live"
    /\ last = "codeGeneration"
    /\ out = codeGeneration(snap["tiled"], 1)
    /\ freed # {}

\* C7: deepCopy(T) is structurally identical to T and shares no node with
\* it, so replacing a child in one tree never changes the other
C7_DeepCopy ==
    (st["copy"] # "none") =>
        /\ last = "deepCopy"
              => /\ Read(heap, freed, ptr["copy"]) = Read(heap, freed, ptr["original"])
                 /\ snap["copy"] = snap["original"]
        /\ (st["original"] = "live" /\ st["copy"] = "live")
              => Nodes("original") \cap Nodes("copy") = {}
        /\ \A h \in {"original", "copy"} : st[h] = "live" => Intact(h)

\* C7 witness: a tree of all nine kinds was copied and then a bound of one
\* of the two trees was replaced
C7_Witness ==
    /\ st["copy"] = "live"
    /\ st["original"] = "live"
    /\ input.kind = "tree"
    /\ input.tree = AllKinds
    /\ last = "replace"
    /\ snap["copy"] # snap["original"]

(***************************************************************************)
(* Properties of buildUntiledIR                                            *)
(***************************************************************************)
\* t is k nested Loops of one statement each around an Assign, header
\* number n being the outermost
RECURSIVE IsNest(_, _, _)
IsNest(t, n, k) ==
    IF n > k THEN t.type = "Assign"
    ELSE /\ t.type = "Loop"
         /\ eraseSpaces(t.index_) = <<IndexNames[n]>>
         /\ Len(t.body_) = 1
         /\ IsNest(t.body_[1], n + 1, k)

\* C8 (as the specification states it): a valid text with k headers parses
\* to exactly k nested Loops of one statement each, the first header the
\* outermost, around the single Assign
C8_NestOfHeaders ==
    input.kind = "text" => IsNest(built, 1, input.k)

\* the loops of a nest, outermost first
RECURSIVE LoopsOf(_)
LoopsOf(t) ==
    IF t.type = "Loop" /\ Len(t.body_) = 1 THEN <<t>> \o LoopsOf(t.body_[1])
    ELSE <<>>

\* every character of s is a digit
AllDigits(s) == s # <<>> /\ \A n \in 1..Len(s) : isdigit(s[n])

\* a bound as a stripped token parses: digits to a Const(int32), anything
\* else to a Variable whose name holds no whitespace
StrippedBound(e) ==
    \/ e.type = "Const" /\ e.dtype_ = "Int32"
    \/ /\ e.type = "Variable"
       /\ eraseSpaces(e.name_) = e.name_
       /\ ~AllDigits(e.name_)

\* C9 (as the specification states it): in every header, the last one
\* included, a bound token is stripped of whitespace before it is parsed
C9_BoundsStripped ==
    (input.kind = "text" /\ ~IsError(built)) =>
        \A n \in 1..Len(LoopsOf(built)) :
            LET l == LoopsOf(built)[n]
            IN  /\ StrippedBound(l.lower_bound_)
                /\ StrippedBound(l.upper_bound_)
                /\ StrippedBound(l.step_)

\* the tensor accesses of the statements
Acc(t, a, b) == Load(<<t>>, <<Idx(a), Idx(b)>>)

\* the tree each right-hand side of Bodies denotes, every parenthesized
\* group being one operand
ExpectedValue ==
    << Add(Acc("A", "i", "j"), Acc("B", "i", "j")),
       Acc("A", "j", "i"),
       Add(Acc("C", "i", "j"), Mul(Acc("A", "i", "j"), Acc("B", "i", "j"))),
       Add(Acc("A", "i", "j"), Mul(Acc("B", "i", "j"), Acc("C", "i", "j"))),
       Add(Acc("A", "i", "j"), Acc("B", "i", "j")),
       Mul(Acc("A", "i", "j"), Add(Acc("B", "i", "j"), Acc("C", "i", "j"))),
       Mul(Add(Acc("A", "i", "j"), Acc("B", "i", "j")),
           Add(Acc("C", "i", "j"), Acc("A", "i", "j"))) >>

\* the innermost statement of a nest
RECURSIVE Innermost(_)
Innermost(t) ==
    IF t.type = "Loop" /\ Len(t.body_) = 1 THEN Innermost(t.body_[1]) ELSE t

\* C10 (as the specification states it): every right-hand side of the
\* grammar parses, a parenthesized group that is an operand of * or +
\* being parsed as one operand
C10_ParenthesizedOperands ==
    input.kind = "text" =>
        /\ ~IsError(built)
        /\ Innermost(built).type = "Assign"
        /\ Innermost(built).value_ = ExpectedValue[input.b]

(***************************************************************************)
(* Errors of buildUntiledIR                                                *)
(***************************************************************************)
\* the one exception the parser throws itself for a malformed text:
\* std::runtime_error("Invalid array access format in body.")
ParseError == "runtime_error"

\* buildUntiledIR ended with a ParseError and the driver got no tree
FailedWithParseError ==
    /\ IsError(built)
    /\ raised = ParseError
    /\ st["original"] = "none"

\* C11 (as the specification states it): a text that lacks the LOOPS: marker
\* or the BODY: marker makes buildUntiledIR fail with a ParseError and
\* return no tree
C11_MissingMarker ==
    (input.kind = "malformed" /\ input.case \in {"noLoops", "noBody"})
        => FailedWithParseError

\* C12 (as the specification states it): an access without a matching
\* bracket pair (no '[', no ']', or ']' before '['), on either side of the
\* assignment, makes the parse fail with a ParseError
C12_UnmatchedBracket ==
    (input.kind = "malformed" /\ input.case = "bracket") => FailedWithParseError


(***************************************************************************)
(* Properties of codeGeneration                                            *)
(***************************************************************************)
\* the positions of the line ends of a generated text
LineEnds(text) == {i \in DOMAIN text : text[i] = "\n"}

\* the n-th line end of a text
LineEnd(text, n) ==
    CHOOSE p \in LineEnds(text) : Cardinality({q \in LineEnds(text) : q <= p}) = n

\* the n-th line of a text, without its line end
LineOf(text, n) ==
    SubSeq(text, IF n = 1 THEN 1 ELSE LineEnd(text, n - 1) + 1, LineEnd(text, n) - 1)

\* the number of blanks a line starts with
Indent(line) == Cardinality({i \in DOMAIN line : \A j \in 1..i : line[j] = " "})

StartsWith(s, p) == Len(s) >= Len(p) /\ SubSeq(s, 1, Len(p)) = p

EndsWith(s, p) == Len(s) >= Len(p) /\ SubSeq(s, Len(s) - Len(p) + 1, Len(s)) = p

\* what a line without its indentation is: the header of a for (with the
\* index it declares), a closing brace, an assignment statement
ConstructOf(b, depth) ==
    CASE b = <<"}">> -> [kind |-> "close", depth |-> depth, index |-> <<>>]
      [] StartsWith(b, TEXT_FOR) /\ EndsWith(b, <<")", " ", "{">>) ->
            [kind |-> "for", depth |-> depth,
             index |-> SubSeq(b, Len(TEXT_FOR) + 1, find(b, TEXT_ASSIGN))]
      [] EndsWith(b, <<";">>) /\ find(b, TEXT_ASSIGN) # npos /\ ~StartsWith(b, TEXT_FOR) ->
            [kind |-> "assign", depth |-> depth, index |-> <<>>]
      [] OTHER -> [kind |-> "other", depth |-> depth, index |-> <<>>]

LineKind(line) ==
    ConstructOf(SubSeq(line, Indent(line) + 1, Len(line)), Indent(line) \div 4)

\* the constructs of a generated text, line by line
LineKinds(text) ==
    [n \in 1..Cardinality(LineEnds(text)) |-> LineKind(LineOf(text, n))]

\* the constructs of a tree in tree order: a Loop is one header, its
\* children one level deeper, and one closing brace; an Assign is one statement
RECURSIVE ShapeOf(_, _), ShapeOfAll(_, _)
ShapeOfAll(body, depth) ==
    IF body = <<>> THEN <<>>
    ELSE ShapeOf(Head(body), depth) \o ShapeOfAll(Tail(body), depth)

ShapeOf(root, depth) ==
    CASE root.type = "Loop" ->
            <<[kind |-> "for", depth |-> depth, index |-> root.index_]>>
            \o ShapeOfAll(root.body_, depth + 1)
            \o <<[kind |-> "close", depth |-> depth, index |-> <<>>]>>
      [] root.type = "Assign" -> <<[kind |-> "assign", depth |-> depth, index |-> <<>>]>>
      [] OTHER -> <<>>

\* the driver's trees that buildUntiledIR or tilingPass produced (and the
\* copy deepCopy made of one)
Produced ==
    IF input.kind \in {"text", "malformed", "scenario"}
    THEN {h \in Handles : st[h] = "live"}
    ELSE {}

\* the text is what codeGeneration writes for the tree of handle h
GeneratedFrom(h) == out = codeGeneration(Read(heap, freed, ptr[h]), 1)

\* C13: codeGeneration of a tree that buildUntiledIR or tilingPass produced
\* does not fail (nothing undefined is printed, every line is a construct),
\* and the lines of its output are, in tree order and at the tree's nesting
\* depth, one header and one closing brace per Loop and one statement per
\* Assign
C13_OneConstructPerNode ==
    (last = "codeGeneration" /\ input.kind \in {"text", "malformed", "scenario"}) =>
        \A h \in Produced :
            GeneratedFrom(h) =>
                /\ \A i \in DOMAIN out : <<out[i]>> # Garbage
                /\ out # <<>> /\ out[Len(out)] = "\n"
                /\ LineKinds(out) = ShapeOf(Read(heap, freed, ptr[h]), 1)

\* the text of a tiled nest was generated: four headers, one statement and
\* four closing braces
C13_Witness ==
    /\ last = "codeGeneration"
    /\ input.kind = "text"
    /\ st["tiled"] = "live"
    /\ GeneratedFrom("tiled")
    /\ Len(LineKinds(out)) = 9
    /\ LineKinds(out)[5].kind = "assign"


(***************************************************************************)
(* The scenarios                                                           *)
(***************************************************************************)
\* the tree of scenario A as the specification draws it
ScenarioATree ==
    Loop(<<"i">>, Int32(0), Idx("N"), Int32(1),
         <<Loop(<<"j">>, Int32(0), Idx("M"), Int32(1),
                <<Assign(Store(<<"C">>, <<Idx("i"), Idx("j")>>),
                         Add(Acc("A", "i", "j"), Acc("B", "i", "j")))>>)>>)

\* C14 (as the specification states it): the text of scenario A parses to
\* Loop(i, 0, N, 1){ Loop(j, 0, M, 1){ C[i,j] = A[i,j] + B[i,j] } }, the index
\* names being exactly i and j and both steps the Const 1
C14_ScenarioA ==
    (input.kind = "scenario" /\ input.name = "A") => built = ScenarioATree


\* the positions of the opening brackets of a text
Opens(text) == {i \in DOMAIN text : text[i] = "["}

\* the n-th opening bracket
OpenAt(text, n) ==
    CHOOSE p \in Opens(text) : Cardinality({q \in Opens(text) : q <= p}) = n

\* the closing bracket after position p
CloseAfter(text, p) ==
    CHOOSE q \in p..Len(text) :
        /\ text[q] = "]"
        /\ \A r \in p..(q - 1) : text[r] # "]"

IsIndexChar(c) == c \notin {",", " "}

\* the access written at the opening bracket p: the tensor named before the
\* bracket and the one-letter index names between the brackets, as written
AccessAt(text, p) ==
    [tensor |-> <<text[p - 1]>>,
     indices |-> [k \in DOMAIN SelectSeq(SubSeq(text, p + 1, CloseAfter(text, p) - 1), IsIndexChar)
                    |-> <<SelectSeq(SubSeq(text, p + 1, CloseAfter(text, p) - 1), IsIndexChar)[k]>>]]

\* the accesses written in a text, from left to right
WrittenAccesses(text) ==
    [n \in 1..Cardinality(Opens(text)) |-> AccessAt(text, OpenAt(text, n))]

\* the access a Load or a Store holds
HeldAccess(node) ==
    [tensor |-> node.tensor_,
     indices |-> [k \in DOMAIN node.indices_ |-> node.indices_[k].name_]]

\* the accesses an expression holds, from left to right
RECURSIVE HeldLoads(_)
HeldLoads(e) ==
    CASE e.type = "Load" -> <<HeldAccess(e)>>
      [] e.type \in {"Add", "Mul", "Min"} ->
            HeldLoads(e.operand_one_) \o HeldLoads(e.operand_two_)
      [] OTHER -> <<>>

\* the accesses of a statement: its target, then its value
HeldAccesses(assign) ==
    (IF assign.target_.type = "Store" THEN <<HeldAccess(assign.target_)>> ELSE <<>>)
    \o HeldLoads(assign.value_)

\* C15: the Store and the Loads of a parsed statement hold, access by access,
\* the index Variables in the order the text writes them, and the text
\* generated from the tree (or from its copy, or from its tiling) writes the
\* same accesses with the indices in that same order
C15_IndexOrderKept ==
    (input.kind \in {"text", "malformed", "scenario"} /\ ~IsError(built)) =>
        /\ Innermost(built).type = "Assign"
        /\ HeldAccesses(Innermost(built)) = WrittenAccesses(input.text)
        /\ last = "codeGeneration" => WrittenAccesses(out) = WrittenAccesses(input.text)

\* scenario C was parsed and generated: the Load of A holds [j, i] and the
\* text reads A[j, i]
C15_Witness ==
    /\ input.kind = "scenario" /\ input.name = "C"
    /\ last = "codeGeneration"
    /\ Innermost(built).value_ = Acc("A", "j", "i")
    /\ find(out, <<"A", "[", "j", ",", " ", "i", "]">>) # npos


(***************************************************************************)
(* Construction                                                            *)
(***************************************************************************)
\* the Assign nodes of the tree under node p
AssignsOf(h, p) == {n \in Reach(h, p) : h[n].type = "Assign"}

\* C16 (as the specification states it): an Assign whose target is not a
\* Store or a Variable cannot be constructed, so no tree the driver holds
\* contains one
C16_AssignTargetRestricted ==
    \A h \in Handles :
        st[h] = "live" =>
            \A n \in AssignsOf(heap, ptr[h]) :
                /\ heap[n].target_ # nullptr
                /\ heap[heap[n].target_].type \in {"Store", "Variable"}


(***************************************************************************)
(* Tensors                                                                 *)
(***************************************************************************)
\* C17 (as the specification states it): every Load and Store of a tree that
\* buildUntiledIR returns has as many indices as its tensor has dimensions
\* (2 for A, B and C); an access written with another number of indices
\* yields no such node
C17_IndexPerDimension ==
    (input.kind \in {"text", "malformed", "scenario"} /\ ~IsError(built)) =>
        \A k \in DOMAIN HeldAccesses(Innermost(built)) :
            Len(HeldAccesses(Innermost(built))[k].indices)
                = TensorAt(HeldAccesses(Innermost(built))[k].tensor).dims_


\* the product of the extents of the dimensions after d, not wrapped: kept
\* to w limbs
RECURSIVE ProductAfter(_, _, _)
ProductAfter(extents, d, w) ==
    IF d >= Len(extents) THEN limbs(1, w)
    ELSE mulLimbs(extents[d + 1], ProductAfter(extents, d + 1, w), w)

\* a size_t written with w limbs
Widened(a, w) == [i \in 1..w |-> limb(a, i)]

\* a Tensor was constructed
Constructed == last = "Tensor" /\ ~IsError(built)

\* C18 (as the specification states it): a constructed Tensor has as many
\* extents and as many strides as its rank, the stride of its last dimension
\* is 1, and the stride of every other dimension is the product of the
\* extents of the dimensions after it
C18_RowMajorStrides ==
    Constructed =>
        /\ built.dims_ = Len(built.extents_)
        /\ built.dims_ = Len(built.strides_)
        /\ built.dims_ > 0 => built.strides_[built.dims_] = size_t(1)
        /\ \A d \in 1..(built.dims_ - 1) :
              Widened(built.strides_[d], 8 * MaxRank)
                  = ProductAfter(built.extents_, d, 8 * MaxRank)

\* C19 (as the specification states it): the constructor throws the
\* shape-mismatch exception, and no Tensor is made, whenever the declared
\* rank is not the number of extents or an extent is 0 (a size_t is never
\* below 0)
C19_ShapeMismatchRejected ==
    (/\ last = "Tensor"
     /\ \/ input.dims # Len(input.extents)
        \/ \E i \in DOMAIN input.extents : input.extents[i] = size_t(0))
        => (IsError(built) /\ raised = "invalid_argument")


(***************************************************************************)
(* Ownership                                                               *)
(***************************************************************************)
\* the locals of tilingPass that are unique_ptrs (og_loop_i, og_loop_j,
\* loop_i and loop_j are raw pointers and own nothing)
OwningLocals ==
    {"cpy", "var_ii", "var_jj", "var_t", "add_ii_t", "add_jj_t",
     "loop_i_upper", "loop_j_upper", "loop_jj", "loop_ii"}

\* the nodes that exist
Alive == DOMAIN heap \ freed

\* the slots that own node n: the child slots of the nodes that exist, the
\* driver's unique_ptrs, the unique_ptr locals of tilingPass
ParentSlots(n) ==
    UNION { { <<m, k>> : k \in {i \in DOMAIN Children(heap[m]) : Children(heap[m])[i] = n} } :
            m \in Alive }

OwnerCount(n) ==
    Cardinality(ParentSlots(n))
    + Cardinality({h \in Handles : ptr[h] = n})
    + Cardinality({x \in OwningLocals : loc[x] = n})

\* the nodes the result of tilingPass owns: what its locals own while it
\* runs, the tree it returned afterwards
ResultNodes ==
    IF pc \in TpPositions
    THEN UNION {Reach(heap, loc[x]) : x \in OwningLocals}
    ELSE Reach(heap, ptr["tiled"])

\* the number of nodes met when the tree under p is walked
RECURSIVE Walked(_, _), WalkedAll(_, _)
WalkedAll(h, ps) ==
    IF ps = <<>> THEN 0 ELSE Walked(h, Head(ps)) + WalkedAll(h, Tail(ps))

Walked(h, p) == IF p = nullptr THEN 0 ELSE 1 + WalkedAll(h, Children(h[p]))

\* C20: in every state during and after tilingPass every node is owned by at
\* most one slot, the result owns no node of the source tree, and the tree
\* returned is a tree: no node of it is met twice when it is walked
C20_ExclusiveOwnership ==
    (pc \in TpPositions \/ st["tiled"] = "live") =>
        /\ \A n \in Alive : OwnerCount(n) <= 1
        /\ st["original"] = "live" => ResultNodes \cap Reach(heap, ptr["original"]) = {}
        /\ st["tiled"] = "live" =>
              Walked(heap, ptr["tiled"]) = Cardinality(Reach(heap, ptr["tiled"]))

\* tilingPass has re-homed the copied nest under loop jj and loop jj under
\* loop ii and returned loop ii, next to the source tree
C20_Witness ==
    /\ Tiled
    /\ st["original"] = "live"
    /\ heap[ptr["tiled"]].index_ = name_ii
    /\ Len(heap[ptr["tiled"]].body_) = 1
    /\ heap[heap[ptr["tiled"]].body_[1]].index_ = name_jj
    /\ OwnerCount(heap[heap[ptr["tiled"]].body_[1]].body_[1]) = 1


(***************************************************************************)
(* Names                                                                   *)
(***************************************************************************)
\* the names a tree uses: the index of every Loop and the name of every
\* Variable
RECURSIVE NamesOf(_), NamesOfAll(_)
NamesOfAll(ts) ==
    IF ts = <<>> THEN {} ELSE NamesOf(Head(ts)) \cup NamesOfAll(Tail(ts))

NamesOf(t) ==
    CASE t.type = "Variable" -> {t.name_}
      [] t.type = "Loop" -> {t.index_} \cup NamesOfAll(Children(t))
      [] OTHER -> NamesOfAll(Children(t))

\* C21 (as the specification states it): the names ii, jj and T that
\* tilingPass introduces are fresh: none of them is the index of a loop or
\* the name of a Variable of the clean nest it was given
C21_FreshNames ==
    (Tiled /\ Clean(snap["original"])) =>
        {name_ii, name_jj, name_T} \cap NamesOf(snap["original"]) = {}


(***************************************************************************)
(* The iteration space for any bounds and steps                            *)
(***************************************************************************)
\* the (i,j) pairs of the runs of tree t in env, in execution order, i and j
\* being the indices of the source nest
PairsOf(t, env) ==
    [r \in 1..Len(Exec(t, env)) |->
        <<Exec(t, env)[r][snap["original"].index_],
          Exec(t, env)[r][snap["original"].body_[1].index_]>>]

\* the lower bounds of the nest t are not above its upper bounds in env
BoundsOrdered(t, env) ==
    /\ Eval(t.lower_bound_, env) <= Eval(t.upper_bound_, env)
    /\ Eval(t.body_[1].lower_bound_, env) <= Eval(t.body_[1].upper_bound_, env)

\* C22 (as the specification states it): for any integer bounds with
\* lb <= ub, any steps of at least 1 and any tile width of at least 1 the
\* tiled nest runs the Assign for the same (i,j) pairs as the source nest,
\* each pair once
C22_SameIterationSpace ==
    (Tiled /\ SimpleNest(snap["original"])) =>
        \A env \in Envs(snap["original"]) :
            (StepsPositive(snap["original"], env) /\ BoundsOrdered(snap["original"], env)) =>
                /\ Range(PairsOf(Read(heap, freed, ptr["tiled"]), env))
                      = Range(PairsOf(snap["original"], env))
                /\ Len(PairsOf(Read(heap, freed, ptr["tiled"]), env))
                      = Cardinality(Range(PairsOf(snap["original"], env)))


\* the names the three bounds of a Loop use
BoundNames(l) ==
    NamesOf(l.lower_bound_) \cup NamesOf(l.upper_bound_) \cup NamesOf(l.step_)

\* the loop indices of a tree, and the names its loop bounds use
RECURSIVE IndicesOf(_), IndicesOfAll(_), AllBoundNames(_), AllBoundNamesAll(_)
IndicesOfAll(ts) ==
    IF ts = <<>> THEN {} ELSE IndicesOf(Head(ts)) \cup IndicesOfAll(Tail(ts))

IndicesOf(t) ==
    IF t.type = "Loop" THEN {t.index_} \cup IndicesOfAll(t.body_) ELSE {}

AllBoundNamesAll(ts) ==
    IF ts = <<>> THEN {} ELSE AllBoundNames(Head(ts)) \cup AllBoundNamesAll(Tail(ts))

AllBoundNames(t) ==
    IF t.type = "Loop" THEN BoundNames(t) \cup AllBoundNamesAll(t.body_) ELSE {}

\* the free symbols of a nest: the names in its bounds that are not indices
FreeSymbols(t) == AllBoundNames(t) \ IndicesOf(t)

\* every name in a bound of a Loop of t is a symbol of `symbols` or the index
\* of a Loop that encloses the bound
RECURSIVE Scoped(_, _, _)
Scoped(t, enclosing, symbols) ==
    IF t.type = "Loop"
    THEN /\ BoundNames(t) \subseteq (symbols \cup enclosing)
         /\ \A k \in DOMAIN t.body_ :
               Scoped(t.body_[k], enclosing \cup {t.index_}, symbols)
    ELSE TRUE

\* C25 (as the specification states it): when every name in a bound of the
\* source nest is a free symbol or the index of an enclosing loop, every name
\* in a bound of the four loops of the tiled nest is a free symbol of the
\* source, T, or the index of a loop that encloses the bound
C25_ScopePreserved ==
    (/\ Tiled
     /\ Clean(snap["original"])
     /\ Scoped(snap["original"], {}, FreeSymbols(snap["original"]))) =>
        Scoped(Read(heap, freed, ptr["tiled"]), {},
               FreeSymbols(snap["original"]) \cup {name_T})


(***************************************************************************)
(* Properties of parseExpression                                           *)
(***************************************************************************)
\* the node of vals[1] op vals[2] op ... op vals[n], grouped from the left
RECURSIVE FoldLeft(_, _)
FoldLeft(type, vals) ==
    IF Len(vals) = 1 THEN vals[1]
    ELSE [type |-> type,
          operand_one_ |-> FoldLeft(type, SubSeq(vals, 1, Len(vals) - 1)),
          operand_two_ |-> vals[Len(vals)]]

\* the positions that end a term: every + and the end of the expression
TermEnds(operands, ops) ==
    Sorted({0, Len(operands)} \cup {k \in DOMAIN ops : ops[k] = "+"})

\* the reference parser: the expression is the sum, from the left, of its
\* terms, and a term is the product, from the left, of its accesses
Reference(operands, ops) ==
    FoldLeft("Add",
        [g \in 1..(Len(TermEnds(operands, ops)) - 1) |->
            FoldLeft("Mul",
                [m \in 1..(TermEnds(operands, ops)[g + 1] - TermEnds(operands, ops)[g]) |->
                    Acc(operands[TermEnds(operands, ops)[g] + m], "i", "j")])])

\* parseExpression is over
ExprDone == pc = "idle" /\ last = "parseExpression"

\* C23: for a parenthesis-free expression over accesses, + and *,
\* parseExpression returns the tree of the reference parser, in which * binds
\* tighter than + and both group from the left
C23_PrecedenceAndAssociativity ==
    (ExprDone /\ input.kind = "expr") => built = Reference(input.operands, input.ops)

\* A+B*C was parsed to Add(A, Mul(B, C))
C23_Witness ==
    /\ ExprDone
    /\ input.kind = "expr"
    /\ input.operands = <<"A", "B", "C">>
    /\ input.ops = <<"+", "*">>
    /\ built = Add(Acc("A", "i", "j"), Mul(Acc("B", "i", "j"), Acc("C", "i", "j")))

\* every recursive activation has a strictly shorter argument than the one
\* that called it, and none is the call of line 109 on cleaned itself
Shrinking ==
    /\ \A k \in 2..Len(frames) :
          Len(frames[k].expr_str) < Len(frames[k - 1].expr_str)
    /\ \A k \in DOMAIN frames : frames[k].pos # "self"

=============================================================================
